---------------------------- MODULE Spec2Model ----------------------------
(***************************************************************************)
(* A model of the lerobot-gui dashboard client: the pages that attach to   *)
(* a backend session (teleoperation, dataset recording, dataset replay,    *)
(* calibration, motor setup on the configuration page), their websocket    *)
(* handlers, their HTTP requests in flight and the decoding of table       *)
(* blocks.  The backend is the environment: it answers every request with  *)
(* any outcome HTTP allows and sends any message at any time.              *)
(*                                                                         *)
(* Text is modelled as a sequence of one-character strings, so that        *)
(* includes, split, trim, toLowerCase, parseFloat and the timing regular   *)
(* expression are computed as JavaScript computes them.                    *)
(***************************************************************************)
EXTENDS Integers, Sequences, FiniteSets, Bags, TLC

(***************************************************************************)
(* Bounds of the model.                                                    *)
(***************************************************************************)
\* sessions one mounted page instance may start
MaxSessions == 2
\* output messages that arrive between two clears of a page's log
MaxOutputs == 2
\* HTTP requests (and pending timers) in flight at one moment
MaxInFlight == 2

(***************************************************************************)
(* JavaScript string operations on character sequences.                    *)
(***************************************************************************)
Whitespace == {" ", "\t", "\r", "\n"}
Digits == {"0", "1", "2", "3", "4", "5", "6", "7", "8", "9"}

DigitVal(c) ==
  CASE c = "0" -> 0 [] c = "1" -> 1 [] c = "2" -> 2 [] c = "3" -> 3
    [] c = "4" -> 4 [] c = "5" -> 5 [] c = "6" -> 6 [] c = "7" -> 7
    [] c = "8" -> 8 [] c = "9" -> 9

\* s[i..j], clamped to the characters s has (as substring and slice clamp)
Slice(s, i, j) ==
  LET lo == IF i < 1 THEN 1 ELSE i
      hi == IF j > Len(s) THEN Len(s) ELSE j
  IN [k \in 1..(hi - lo + 1) |-> s[lo + k - 1]]

\* String.prototype.indexOf, 1-based; 0 when sub does not occur
IndexOf(s, sub) ==
  LET hits == {i \in 1..(Len(s) - Len(sub) + 1) : Slice(s, i, i + Len(sub) - 1) = sub}
  IN IF hits = {} THEN 0 ELSE CHOOSE i \in hits : \A j \in hits : i <= j

Includes(s, sub) == IndexOf(s, sub) # 0

StartsWith(s, pre) == Len(pre) <= Len(s) /\ Slice(s, 1, Len(pre)) = pre

RECURSIVE TrimLeft(_)
TrimLeft(s) == IF s # <<>> /\ Head(s) \in Whitespace THEN TrimLeft(Tail(s)) ELSE s

RECURSIVE TrimRight(_)
TrimRight(s) ==
  IF s # <<>> /\ s[Len(s)] \in Whitespace THEN TrimRight(Slice(s, 1, Len(s) - 1)) ELSE s

Trim(s) == TrimRight(TrimLeft(s))

\* s.split(ch) for a one-character separator
RECURSIVE Split(_, _)
Split(s, ch) ==
  LET i == IndexOf(s, <<ch>>)
  IN IF i = 0 THEN <<s>>
     ELSE <<Slice(s, 1, i - 1)>> \o Split(Slice(s, i + 1, Len(s)), ch)

\* s.replace(sub, ''): the first occurrence only
ReplaceFirst(s, sub) ==
  LET i == IndexOf(s, sub)
  IN IF i = 0 THEN s ELSE Slice(s, 1, i - 1) \o Slice(s, i + Len(sub), Len(s))

\* s.replace(/\r/g, '')
RemoveCR(s) == SelectSeq(s, LAMBDA c : c # "\r")

LowerChar(c) ==
  CASE c = "A" -> "a"
    [] c = "B" -> "b" [] c = "C" -> "c" [] c = "D" -> "d" [] c = "E" -> "e"
    [] c = "F" -> "f" [] c = "G" -> "g" [] c = "H" -> "h" [] c = "I" -> "i"
    [] c = "J" -> "j" [] c = "K" -> "k" [] c = "L" -> "l" [] c = "M" -> "m"
    [] c = "N" -> "n" [] c = "O" -> "o" [] c = "P" -> "p" [] c = "Q" -> "q"
    [] c = "R" -> "r" [] c = "S" -> "s" [] c = "T" -> "t" [] c = "U" -> "u"
    [] c = "V" -> "v" [] c = "W" -> "w" [] c = "X" -> "x" [] c = "Y" -> "y"
    [] c = "Z" -> "z"
    [] OTHER -> c

\* s.toLowerCase(), for ASCII letters
ToLowerCase(s) == [i \in 1..Len(s) |-> LowerChar(s[i])]

\* length of the longest run of characters of S that starts at s[i]
RECURSIVE SpanLen(_, _, _)
SpanLen(s, i, S) == IF i <= Len(s) /\ s[i] \in S THEN 1 + SpanLen(s, i + 1, S) ELSE 0

\* the value of a run of digits, as an integer
RECURSIVE IntVal(_)
IntVal(ds) == IF ds = <<>> THEN 0 ELSE 10 * IntVal(Slice(ds, 1, Len(ds) - 1)) + DigitVal(ds[Len(ds)])

\* the first three fractional digits, in thousandths
FracVal(ds) ==
  LET d(k) == IF k <= Len(ds) THEN DigitVal(ds[k]) ELSE 0
  IN 100 * d(1) + 10 * d(2) + d(3)

NaN == [nan |-> TRUE, val |-> 0]
Number(v) == [nan |-> FALSE, val |-> v]

\* parseFloat: skips leading white space and converts the longest prefix that
\* is a decimal literal (sign, digits, point, digits); NaN when there is none.
\* Values are in thousandths.  Exponents and Infinity do not occur in the
\* model's inputs.
parseFloat(str) ==
  LET s == TrimLeft(str)
      signed == s # <<>> /\ s[1] \in {"+", "-"}
      p == IF signed THEN 2 ELSE 1
      ni == SpanLen(s, p, Digits)
      hasDot == p + ni <= Len(s) /\ s[p + ni] = "."
      nf == IF hasDot THEN SpanLen(s, p + ni + 1, Digits) ELSE 0
      mag == 1000 * IntVal(Slice(s, p, p + ni - 1))
               + FracVal(Slice(s, p + ni + 1, p + ni + nf))
  IN IF ni = 0 /\ nf = 0 THEN NaN
     ELSE Number(IF signed /\ s[1] = "-" THEN 0 - mag ELSE mag)

(***************************************************************************)
(* Teleoperation.tsx: parseTableData.                                      *)
(***************************************************************************)
DigitsOrDot == Digits \cup {"."}

\* trimmedLine.match(/time:\s*([\d.]+)ms\s*\(([\d.]+)\s*Hz\)/) tried at index i:
\* <<>> when it does not match there, else the two groups
TimeMatchAt(s, i) ==
  LET a == i + 5
      b == a + SpanLen(s, a, Whitespace)
      g1 == SpanLen(s, b, DigitsOrDot)
      c == b + g1
      d == c + 2
      e == d + SpanLen(s, d, Whitespace)
      f == e + 1
      g2 == SpanLen(s, f, DigitsOrDot)
      g == f + g2
      h == g + SpanLen(s, g, Whitespace)
  IN IF /\ Slice(s, i, i + 4) = <<"t", "i", "m", "e", ":">>
        /\ g1 >= 1
        /\ Slice(s, c, c + 1) = <<"m", "s">>
        /\ e <= Len(s) /\ s[e] = "("
        /\ g2 >= 1
        /\ Slice(s, h, h + 2) = <<"H", "z", ")">>
     THEN <<Slice(s, b, c - 1), Slice(s, f, g - 1)>>
     ELSE <<>>

\* the leftmost match of the timing expression in s, or <<>>
TimeMatch(s) ==
  LET hits == {i \in 1..Len(s) : TimeMatchAt(s, i) # <<>>}
  IN IF hits = {} THEN <<>>
     ELSE TimeMatchAt(s, CHOOSE i \in hits : \A j \in hits : i <= j)

EmptyTable == [positions |-> <<>>, timeInfo |-> <<>>, freqInfo |-> <<>>]

\* positions[jointName] = value
PutJoint(positions, name, value) ==
  [k \in (DOMAIN positions) \cup {name} |-> IF k = name THEN value ELSE positions[k]]

\* one iteration of the loop over the lines
ParseLine(acc, line) ==
  LET trimmedLine == Trim(line)
      parts == Split(trimmedLine, "|")
      jointName == ReplaceFirst(Trim(parts[1]), <<".", "p", "o", "s">>)
      value == parseFloat(Trim(parts[2]))
      withJoint ==
        IF /\ Includes(trimmedLine, <<".", "p", "o", "s">>)
           /\ Includes(trimmedLine, <<"|">>)
           /\ Len(parts) = 2
           /\ ~value.nan
        THEN [acc EXCEPT !.positions = PutJoint(acc.positions, jointName, value.val)]
        ELSE acc
      timeMatch == TimeMatch(trimmedLine)
  IN IF StartsWith(trimmedLine, <<"t", "i", "m", "e", ":">>) /\ timeMatch # <<>>
     THEN [withJoint EXCEPT !.timeInfo = timeMatch[1] \o <<"m", "s">>,
                            !.freqInfo = timeMatch[2] \o <<" ", "H", "z">>]
     ELSE withJoint

RECURSIVE ParseLines(_, _)
ParseLines(acc, lines) ==
  IF lines = <<>> THEN acc ELSE ParseLines(ParseLine(acc, Head(lines)), Tail(lines))

parseTableData(tableText) == ParseLines(EmptyTable, Split(tableText, "\n"))

(***************************************************************************)
(* State.  One page is mounted at a time (the application routes), and the  *)
(* variables hold the React state of the mounted component; leaving the    *)
(* page discards it.  State that several pages declare under different     *)
(* names is held once:                                                     *)
(*   running          isTeleoperating / isRecording / isReplaying /        *)
(*                    isCalibrating / isRunningMotorConfig                 *)
(*   awaiting         waitingForUser / motorConfigWaiting                  *)
(*   sending          isSendingInput / isSendingMotorInput                 *)
(*   sessionId        sessionId / motorConfigSessionId (0: '' or null)     *)
(*   websocket        websocket / motorConfigSocket.current (0: null)      *)
(*   output           the output array of the three log pages              *)
(* Toasts, console output and calibrationOutput (a text that is only       *)
(* displayed) are not state of the model.                                  *)
(***************************************************************************)
VARIABLES
  page,               \* the mounted page
  backendConnected,   \* "unknown" (null), "connected" (true), "disconnected" (false)
  running, isRunning, sessionId, websocket, output, awaiting, sending,
  motorConfigOutput,  \* the text of the motor setup console
  jointPositions, lastUpdateTime, updateFrequency,
  polls,              \* the setInterval timers of monitorCalibrationProcess
  nSessions,          \* sessions the backend has created for this page instance
  conn,               \* readyState of the websocket of each session
  net,                \* bag of HTTP requests (and timers) in flight
  evt,                \* history: the event the last step handled
  rcvd,               \* history: output texts received since the log was last cleared
  stopped,            \* history: sessions for which a stop request has completed
  prevJointPositions, \* history: the joint map the last table message found
  store,              \* the state of useLeRobotStore
  streamingCameras,   \* Configuration: the cameras shown as streaming (the state and,
                      \* set from it after every render, streamingCamerasRef.current)
  activeStreams,      \* the cameras the backend is streaming
  envLoaded,          \* Configuration: a credentials response has been handled
  hfEffect,           \* Configuration: the fetchHfEnv effect is due to run
  hfFetches,          \* the fetchHfEnv requests in flight, each with the hfUser and
                      \* hfToken its closure holds
  robotIdInput,       \* Configuration: leaderRobotIdInput / followerRobotIdInput
  robotIdTimeout,     \* Configuration: whether the timer of leaderRobotIdTimeoutRef /
                      \* followerRobotIdTimeoutRef is pending
  unsavedRobotId,     \* history: the field was edited and setArmConfig has not been
                      \* called for it since
  calibrationSteps,   \* Calibration: the status of each step of the step list that
                      \* the websocket handlers of each session hold
  trainingStatus,     \* ModelTraining: isRunning, isCompleted and error of trainingStatus
  trainingTimers,     \* ModelTraining: the interval and the timeout of each
                      \* pollTrainingOutput that are still set
  trainingRun,        \* ModelTraining: how often Start Training has been clicked
  trainingProgress,   \* openbot ModelTraining: <<>> (null) or <<p>>, p the
                      \* currentEpoch, totalEpochs, currentStep and totalSteps
  isPaused,           \* openbot ModelTraining: isPaused
  ticks,              \* history: progress ticks since training was started
  uninterrupted,      \* history: no Pause and no Stop since training was started
  replayState,        \* dataset player: isPlaying, isPaused, currentFrame, totalFrames
                      \* and loop of replayState
  selectedDataset     \* dataset player: the id of the selected dataset, or ""

\* the state of the Configuration component besides its motor setup console,
\* and what is under way for it
configurationVars ==
  <<streamingCameras, activeStreams, envLoaded, hfEffect, hfFetches,
    robotIdInput, robotIdTimeout, unsavedRobotId>>

\* the state of the training page and what is under way for it
trainingVars == <<trainingStatus, trainingTimers, trainingRun>>

\* the state of the simulated training of the openbot dashboard's page (its
\* isTraining is in the store)
simulationVars == <<trainingProgress, isPaused, ticks, uninterrupted>>

\* the state of the dataset player (its datasets and isReplaying are in the store)
replayVars == <<replayState, selectedDataset>>

vars == <<page, backendConnected, running, isRunning, sessionId, websocket, output,
          awaiting, sending, motorConfigOutput, jointPositions, lastUpdateTime,
          updateFrequency, polls, nSessions, conn, net, evt, rcvd, stopped,
          prevJointPositions, store, configurationVars, calibrationSteps, trainingVars,
          simulationVars, replayVars>>

\* what a step of the store leaves alone: the mounted page and its sessions
pageVars == <<page, backendConnected, running, isRunning, sessionId, websocket, output,
              awaiting, sending, motorConfigOutput, jointPositions, lastUpdateTime,
              updateFrequency, polls, nSessions, conn, net, rcvd, stopped,
              prevJointPositions,
              calibrationSteps, trainingVars, simulationVars, replayVars>>

Pages == {"teleoperation", "recording", "replay", "calibration", "configuration"}
LogPages == {"teleoperation", "recording", "replay"}
Sessions == 1..MaxSessions

\* a request in flight: what it asks, and the values its continuation closed over
Req(kind, sid, ws, cap) == [kind |-> kind, sid |-> sid, ws |-> ws, cap |-> cap]
Event(type, status, text) == [type |-> type, status |-> status, text |-> text]

Sent(r) == net (+) SetToBag({r})
Answered(r) == net (-) SetToBag({r})
InFlight(kind) == {r \in BagToSet(net) : r.kind = kind}
CanSend == BagCardinality(net) < MaxInFlight

\* ws.close(): a connecting or open socket starts closing; its close event follows
Close(cn, c) ==
  IF c # 0 /\ cn[c] \in {"connecting", "open"} THEN [cn EXCEPT ![c] = "closing"] ELSE cn

(***************************************************************************)
(* The store, lerobotStore.tsx.  set(partial) of zustand and the object     *)
(* spread { ...old, ...upd } both lay the fields of upd over those of old.  *)
(***************************************************************************)
Merge(old, upd) ==
  [f \in DOMAIN old \cup DOMAIN upd |-> IF f \in DOMAIN upd THEN upd[f] ELSE old[f]]

\* the state create() builds; user and token come from the build environment
\* or are empty; learningRate is in thousandths
InitialStore(user, token) ==
  [ armConfig |-> [ leaderPort |-> "/dev/ttyUSB0", followerPort |-> "/dev/ttyUSB1",
                    leaderConnected |-> FALSE, followerConnected |-> FALSE,
                    leaderRobotType |-> "", followerRobotType |-> "",
                    leaderRobotId |-> "", followerRobotId |-> "" ],
    cameras |-> <<>>,
    datasets |-> <<>>,
    trainingConfig |-> [ modelType |-> "transformer", learningRate |-> 1, batchSize |-> 32,
                         epochs |-> 100, datasetPath |-> "", outputPath |-> "./models" ],
    isTraining |-> FALSE,
    isConnected |-> FALSE,
    currentSession |-> [ isRecording |-> FALSE, isReplaying |-> FALSE,
                         isTeleoperating |-> FALSE ],
    hfUser |-> user,
    hfToken |-> token ]

setArmConfigReplacing(state, config) == Merge(state, [armConfig |-> config])

setArmConfig(state, config) ==
  Merge(state, [armConfig |-> Merge(state.armConfig, config)])

setTrainingConfig(state, config) ==
  Merge(state, [trainingConfig |-> Merge(state.trainingConfig, config)])

setSessionState(state, upd) ==
  Merge(state, [currentSession |-> Merge(state.currentSession, upd)])

toggleCameraEnabling(state, id) ==
  Merge(state, [cameras |->
    [i \in 1..Len(state.cameras) |->
       IF state.cameras[i].id = id
       THEN Merge(state.cameras[i], [enabled |-> TRUE])
       ELSE state.cameras[i]]])

toggleCamera(state, id) ==
  Merge(state, [cameras |->
    [i \in 1..Len(state.cameras) |->
       IF state.cameras[i].id = id
       THEN Merge(state.cameras[i], [enabled |-> ~state.cameras[i].enabled])
       ELSE state.cameras[i]]])

addDataset(state, dataset) ==
  Merge(state, [datasets |-> Append(state.datasets, dataset)])

\* drops the first dataset with the id only
RemoveFirst(ds, id) ==
  IF \E i \in 1..Len(ds) : ds[i].id = id
  THEN LET k == CHOOSE i \in 1..Len(ds) : ds[i].id = id /\ \A j \in 1..(i - 1) : ds[j].id # id
       IN SubSeq(ds, 1, k - 1) \o SubSeq(ds, k + 1, Len(ds))
  ELSE ds

removeFirstDataset(state, id) == Merge(state, [datasets |-> RemoveFirst(state.datasets, id)])

removeDataset(state, id) ==
  Merge(state, [datasets |-> SelectSeq(state.datasets, LAMBDA d : d.id # id)])

(***************************************************************************)
(* What the backend may send.                                              *)
(***************************************************************************)
StatusValues == {"finished", "failed", "stopped", "awaiting_input", "running"}
TerminalStatus == {"finished", "failed", "stopped"}

T_ok == <<"o", "k">>
T_go == <<"g", "o">>
T_arms == <<"a", "r", "m", "s">>
T_PressENTER == <<"P", "r", "e", "s", "s", " ", "E", "N", "T", "E", "R">>
T_exit0 == <<"e", "x", "i", "t", " ", "c", "o", "d", "e", " ", "0">>
T_boom == <<"b", "o", "o", "m">>
T_started == <<"C", "a", "l", "i", "b", "r", "a", "t", "i", "o", "n", " ", "s", "t", "a", "r", "t", "e", "d", " ", "f", "o", "r", " ", "a", "r", "m">>
T_MoveTest == <<"M", "o", "v", "e", " ", "t", "e", "s", "t", " ", "t", "o", " ", "t", "h", "e", " ", "m", "i", "d", "d", "l", "e", " ", "o", "f", " ", "i", "t", "s", " ", "r", "a", "n", "g", "e">>

\* a full snapshot with its timing line, and a later snapshot of another joint
Table_j1j2 ==
  <<"j", "1", ".", "p", "o", "s", " ", "|", " ", "1", ".", "0", "\n",
    "j", "2", ".", "p", "o", "s", " ", "|", " ", "2", ".", "0", "\n",
    "t", "i", "m", "e", ":", " ", "5", "m", "s", " ", "(", "2", "0", "0", " ", "H", "z", ")">>
Table_j3 == <<"j", "3", ".", "p", "o", "s", " ", "|", " ", "3", ".", "5">>

LogTexts == {T_ok, T_arms}
CalibrationTexts == {T_ok, T_PressENTER, T_exit0, T_started, T_MoveTest}
MotorTexts == {T_go, T_PressENTER}
WsTables == {Table_j1j2, Table_j3}

(***************************************************************************)
(* Initial state: a page has just been mounted.                            *)
(***************************************************************************)
\* the three steps of either robot type, as a render builds them
PendingSteps == <<"pending", "pending", "pending">>

\* the two robot-ID inputs of the configuration page, by the store field
\* each is saved to
RobotIdFields == {"leaderRobotId", "followerRobotId"}

Mounted(p) ==
  /\ page = p
  /\ backendConnected = "unknown"
  /\ running = FALSE /\ isRunning = FALSE
  /\ sessionId = 0 /\ websocket = 0
  /\ output = <<>> /\ awaiting = FALSE /\ sending = FALSE
  /\ motorConfigOutput = <<>>
  /\ jointPositions = <<>> /\ lastUpdateTime = <<>> /\ updateFrequency = <<>>
  /\ polls = {} /\ nSessions = 0
  /\ conn = [c \in Sessions |-> "none"]
  /\ net = EmptyBag
  /\ rcvd = <<>>
  /\ stopped = {} /\ prevJointPositions = <<>>
  /\ streamingCameras = {}
  /\ envLoaded = FALSE /\ hfEffect = (p = "configuration")
  /\ robotIdInput = [f \in RobotIdFields |-> ""]
  /\ robotIdTimeout = [f \in RobotIdFields |-> FALSE]
  /\ calibrationSteps = [c \in Sessions |-> PendingSteps]
  /\ trainingStatus = [isRunning |-> FALSE, isCompleted |-> FALSE, error |-> "null"]
  /\ trainingTimers = {} /\ trainingRun = 0
  /\ trainingProgress = <<>> /\ isPaused = FALSE
  /\ ticks = 0 /\ uninterrupted = FALSE
  /\ replayState = [isPlaying |-> FALSE, isPaused |-> FALSE, currentFrame |-> 0,
                    totalFrames |-> 0, loop |-> FALSE]
  /\ selectedDataset = ""

Init ==
  /\ \E p \in Pages : Mounted(p)
  /\ evt = Event("mount", "", <<>>)
  /\ store = InitialStore("", "")
  /\ activeStreams = {}
  /\ hfFetches = {}
  /\ unsavedRobotId = [f \in RobotIdFields |-> FALSE]

(***************************************************************************)
(* checkBackendConnection: on mount and every 5 s (all pages but the       *)
(* configuration page).                                                    *)
(***************************************************************************)
checkBackendConnection ==
  /\ page # "configuration"
  /\ \E ok \in BOOLEAN :
       backendConnected' = IF ok THEN "connected" ELSE "disconnected"
  /\ evt' = Event("health", "", <<>>)
  /\ UNCHANGED <<page, running, isRunning, sessionId, websocket, output, awaiting,
                 sending, motorConfigOutput, jointPositions, lastUpdateTime,
                 updateFrequency, polls, nSessions, conn, net, rcvd,
                 stopped, prevJointPositions, store, configurationVars,
                 calibrationSteps, trainingVars, simulationVars, replayVars>>

(***************************************************************************)
(* The log pages: Teleoperation.tsx, DatasetRecording.tsx and the          *)
(* DatasetReplay component.  Their start, stop and websocket code is the   *)
(* same up to names; teleoperation has isRunning, the log filter and the   *)
(* table branch in addition.  A start with a missing port, id or task      *)
(* only shows a toast and is a stuttering step.                            *)
(***************************************************************************)
\* backendConnected !== true makes a start handler return with a toast
BackendNotKnownDown == backendConnected # "disconnected"

BackendReady == backendConnected = "connected"

\* the Start button of these pages and of calibration: disabled while running
\* and while backendConnected === false
StartButtonEnabled == ~running /\ backendConnected # "disconnected"

\* a click on Start that the backend check turns down: the toast 'Backend is
\* not connected', and return
StartRefused ==
  /\ page \in LogPages \cup {"calibration"}
  /\ StartButtonEnabled
  /\ ~BackendReady
  /\ evt' = Event("start_refused", "", <<>>)
  /\ UNCHANGED <<page, backendConnected, running, isRunning, sessionId, websocket, output,
                 awaiting, sending, motorConfigOutput, jointPositions, lastUpdateTime,
                 updateFrequency, polls, nSessions, conn, net, rcvd,
                 stopped, prevJointPositions, store, configurationVars,
                 calibrationSteps, trainingVars, simulationVars, replayVars>>

\* startTeleoperation / startRecording / startReplay up to the await of fetch.
\* The button is disabled while running or while backendConnected === false,
\* and the handler returns unless backendConnected === true.
StartLogSession ==
  /\ page \in LogPages
  /\ StartButtonEnabled
  /\ BackendReady
  /\ CanSend
  /\ nSessions + Cardinality(InFlight("start")) < MaxSessions
  /\ running' = TRUE
  /\ isRunning' = IF page = "teleoperation" THEN TRUE ELSE isRunning
  /\ output' = <<>>
  /\ rcvd' = <<>>
  /\ net' = Sent(Req("start", 0, 0, FALSE))
  /\ evt' = Event("start", "", <<>>)
  /\ UNCHANGED <<page, backendConnected, sessionId, websocket, awaiting, sending,
                 motorConfigOutput, jointPositions, lastUpdateTime, updateFrequency,
                 polls, nSessions, conn,
                 stopped, prevJointPositions, store, configurationVars,
                 calibrationSteps, trainingVars, simulationVars, replayVars>>

\* startWebSocketConnection(sessionId): new WebSocket(...); setWebsocket(ws)
OpenWebSocket(cn, sid) == [cn EXCEPT ![sid] = "connecting"]

\* response.ok: setSessionId(result.session_id); startWebSocketConnection(...)
StartLogSessionOk ==
  /\ page \in LogPages
  /\ \E r \in InFlight("start") :
       /\ net' = Answered(r)
       /\ nSessions' = nSessions + 1
       /\ sessionId' = nSessions + 1
       /\ websocket' = nSessions + 1
       /\ conn' = OpenWebSocket(conn, nSessions + 1)
  /\ evt' = Event("start_ok", "", <<>>)
  /\ UNCHANGED <<page, backendConnected, running, isRunning, output, awaiting, sending,
                 motorConfigOutput, jointPositions, lastUpdateTime, updateFrequency,
                 polls, rcvd,
                 stopped, prevJointPositions, store, configurationVars,
                 calibrationSteps, trainingVars, simulationVars, replayVars>>

\* !response.ok or a rejected fetch: the catch block
StartLogSessionFailed ==
  /\ page \in LogPages
  /\ \E r \in InFlight("start") : net' = Answered(r)
  /\ running' = FALSE
  /\ isRunning' = IF page = "teleoperation" THEN FALSE ELSE isRunning
  /\ evt' = Event("start_failed", "", <<>>)
  /\ UNCHANGED <<page, backendConnected, sessionId, websocket, output, awaiting, sending,
                 motorConfigOutput, jointPositions, lastUpdateTime, updateFrequency,
                 polls, nSessions, conn, rcvd,
                 stopped, prevJointPositions, store, configurationVars,
                 calibrationSteps, trainingVars, simulationVars, replayVars>>

\* stopTeleoperation / stopRecording / stopReplay up to the await of fetch.
\* The button is disabled unless running; the handler returns if !sessionId.
\* The continuation closes over sessionId and websocket of this render.
StopLogSession ==
  /\ page \in LogPages
  /\ running
  /\ sessionId # 0
  /\ CanSend
  /\ net' = Sent(Req("stop", sessionId, websocket, FALSE))
  /\ evt' = Event("stop", "", <<>>)
  /\ UNCHANGED <<page, backendConnected, running, isRunning, sessionId, websocket, output,
                 awaiting, sending, motorConfigOutput, jointPositions, lastUpdateTime,
                 updateFrequency, polls, nSessions, conn, rcvd,
                 stopped, prevJointPositions, store, configurationVars,
                 calibrationSteps, trainingVars, simulationVars, replayVars>>

\* the fetch resolved (with any HTTP status: response.ok is not looked at; the
\* history keeps what the backend answered)
StopLogSessionDone ==
  /\ page \in LogPages
  /\ \E r \in InFlight("stop") :
       /\ net' = Answered(r)
       /\ conn' = Close(conn, r.ws)
       /\ websocket' = IF r.ws # 0 THEN 0 ELSE websocket
       /\ stopped' = stopped \cup {r.sid}
  /\ running' = FALSE
  /\ isRunning' = IF page = "teleoperation" THEN FALSE ELSE isRunning
  /\ sessionId' = 0
  /\ output' = <<>>
  /\ rcvd' = <<>>
  /\ \E ok \in BOOLEAN : evt' = Event("stop_done", IF ok THEN "ok" ELSE "http_error", <<>>)
  /\ UNCHANGED <<page, backendConnected, awaiting, sending, motorConfigOutput,
                 jointPositions, lastUpdateTime, updateFrequency, polls, nSessions,
                 prevJointPositions, store, configurationVars,
                 calibrationSteps, trainingVars, simulationVars, replayVars>>

\* the fetch was rejected: the catch block shows a toast
StopLogSessionFailed ==
  /\ page \in LogPages
  /\ \E r \in InFlight("stop") : net' = Answered(r)
  /\ evt' = Event("stop_failed", "", <<>>)
  /\ UNCHANGED <<page, backendConnected, running, isRunning, sessionId, websocket, output,
                 awaiting, sending, motorConfigOutput, jointPositions, lastUpdateTime,
                 updateFrequency, polls, nSessions, conn, rcvd,
                 stopped, prevJointPositions, store, configurationVars,
                 calibrationSteps, trainingVars, simulationVars, replayVars>>

\* the filter of the teleoperation log: "table-related" output is not logged
TableRelated(text) ==
  \/ Includes(text, <<".", "p", "o", "s">>)
  \/ Includes(text, <<"N", "A", "M", "E">>)
  \/ Includes(text, <<"N", "O", "R", "M">>)
  \/ Includes(text, [i \in 1..27 |-> "-"])
  \/ Includes(text, <<"t", "i", "m", "e", ":">>)
  \/ Includes(text, <<"m", "s">>)
  \/ Includes(text, <<"H", "z">>)

\* the texts of LogTexts that the filter holds back
FilteredTexts == {text \in LogTexts : TableRelated(text)}

\* what an output message appends to the log of page p
Logged(p, text) == IF p = "teleoperation" /\ text \in FilteredTexts THEN <<>> ELSE <<text>>

\* ws.onmessage, data.type === 'output'
LogOnOutput ==
  /\ page \in LogPages
  /\ Len(rcvd) < MaxOutputs
  /\ \E c \in Sessions, text \in LogTexts :
       /\ conn[c] = "open"
       /\ output' = output \o Logged(page, text)
       /\ rcvd' = Append(rcvd, text)
       /\ evt' = Event("output", "", text)
  /\ UNCHANGED <<page, backendConnected, running, isRunning, sessionId, websocket, awaiting,
                 sending, motorConfigOutput, jointPositions, lastUpdateTime,
                 updateFrequency, polls, nSessions, conn, net,
                 stopped, prevJointPositions, store, configurationVars,
                 calibrationSteps, trainingVars, simulationVars, replayVars>>

\* parseTableData(data.data) of each block the backend may send
DecodedTables == [block \in WsTables |-> parseTableData(block)]

\* a table message merged into the map it finds (not the page's: C6 tells the
\* two apart)
TableMerge(old, decoded) ==
  [k \in (DOMAIN old) \cup (DOMAIN decoded) |->
     IF k \in DOMAIN decoded THEN decoded[k] ELSE old[k]]

\* what a table message makes of the joint-position map
TableUpdate(old, decoded) == decoded

\* ws.onmessage, data.type === 'table' (teleoperation only; the other pages
\* have no branch for it)
TeleopOnTable ==
  /\ page = "teleoperation"
  /\ \E c \in Sessions, block \in WsTables :
       /\ conn[c] = "open"
       /\ LET t == DecodedTables[block]
          IN /\ jointPositions' = TableUpdate(jointPositions, t.positions)
             /\ lastUpdateTime' = t.timeInfo
             /\ updateFrequency' = t.freqInfo
       /\ evt' = Event("table", "", block)
  /\ prevJointPositions' = jointPositions
  /\ UNCHANGED <<page, backendConnected, running, isRunning, sessionId, websocket, output,
                 awaiting, sending, motorConfigOutput, polls, nSessions, conn, net, rcvd,
                 stopped, store, configurationVars,
                 calibrationSteps, trainingVars, simulationVars, replayVars>>

\* the status values the log pages act on
LogEndStatus == {"finished"}

\* ws.onmessage, data.type === 'status'
LogOnStatus ==
  /\ page \in LogPages
  /\ \E c \in Sessions, st \in StatusValues :
       /\ conn[c] = "open"
       /\ running' = IF st \in LogEndStatus THEN FALSE ELSE running
       /\ isRunning' = IF st \in LogEndStatus /\ page = "teleoperation" THEN FALSE ELSE isRunning
       /\ evt' = Event("status", st, <<>>)
  /\ UNCHANGED <<page, backendConnected, sessionId, websocket, output, awaiting, sending,
                 motorConfigOutput, jointPositions, lastUpdateTime, updateFrequency,
                 polls, nSessions, conn, net, rcvd,
                 stopped, prevJointPositions, store, configurationVars,
                 calibrationSteps, trainingVars, simulationVars, replayVars>>

\* ws.onopen (no page changes state on it; calibration clears its timeout)
WsOnOpen ==
  /\ \E c \in Sessions :
       /\ conn[c] = "connecting"
       /\ conn' = [conn EXCEPT ![c] = "open"]
  /\ evt' = Event("ws_open", "", <<>>)
  /\ UNCHANGED <<page, backendConnected, running, isRunning, sessionId, websocket, output,
                 awaiting, sending, motorConfigOutput, jointPositions, lastUpdateTime,
                 updateFrequency, polls, nSessions, net, rcvd,
                 stopped, prevJointPositions, store, configurationVars,
                 calibrationSteps, trainingVars, simulationVars, replayVars>>

\* ws.onmessage, data.type === 'error': a toast
LogOnErrorMessage ==
  /\ page \in LogPages
  /\ \E c \in Sessions : conn[c] = "open"
  /\ evt' = Event("error", "", T_boom)
  /\ UNCHANGED <<page, backendConnected, running, isRunning, sessionId, websocket, output,
                 awaiting, sending, motorConfigOutput, jointPositions, lastUpdateTime,
                 updateFrequency, polls, nSessions, conn, net, rcvd,
                 stopped, prevJointPositions, store, configurationVars,
                 calibrationSteps, trainingVars, simulationVars, replayVars>>

\* an onerror handler that also asks the backend to stop the session (not the
\* pages': C10 tells the two apart)
LogOnErrorStopping ==
  /\ page \in LogPages
  /\ \E c \in Sessions :
       /\ conn[c] \in {"connecting", "open"}
       /\ conn' = [conn EXCEPT ![c] = "closing"]
  /\ net' = Sent(Req("stop", sessionId, websocket, FALSE))
  /\ evt' = Event("ws_error", "", <<>>)
  /\ UNCHANGED <<page, backendConnected, running, isRunning, sessionId, websocket, output,
                 awaiting, sending, motorConfigOutput, jointPositions, lastUpdateTime,
                 updateFrequency, polls, nSessions, rcvd, stopped, prevJointPositions, store, configurationVars,
                 calibrationSteps, trainingVars, simulationVars, replayVars>>

\* ws.onerror: a toast.  The browser then closes the connection.
LogOnError ==
  /\ page \in LogPages
  /\ \E c \in Sessions :
       /\ conn[c] \in {"connecting", "open"}
       /\ conn' = [conn EXCEPT ![c] = "closing"]
  /\ evt' = Event("ws_error", "", <<>>)
  /\ UNCHANGED <<page, backendConnected, running, isRunning, sessionId, websocket, output,
                 awaiting, sending, motorConfigOutput, jointPositions, lastUpdateTime,
                 updateFrequency, polls, nSessions, net, rcvd,
                 stopped, prevJointPositions, store, configurationVars,
                 calibrationSteps, trainingVars, simulationVars, replayVars>>

\* ws.onclose of any socket the page has opened: setWebsocket(null)
LogOnClose ==
  /\ page \in LogPages
  /\ \E c \in Sessions :
       /\ conn[c] # "none"
       /\ conn' = [conn EXCEPT ![c] = "none"]
  /\ websocket' = 0
  /\ evt' = Event("ws_close", "", <<>>)
  /\ UNCHANGED <<page, backendConnected, running, isRunning, sessionId, output, awaiting,
                 sending, motorConfigOutput, jointPositions, lastUpdateTime,
                 updateFrequency, polls, nSessions, net, rcvd,
                 stopped, prevJointPositions, store, configurationVars,
                 calibrationSteps, trainingVars, simulationVars, replayVars>>

(***************************************************************************)
(* Calibration.tsx.  robotTypes, the array that holds the step lists, is   *)
(* built anew by every render.  The websocket handlers of a session hold   *)
(* the step objects of the render in which Start was clicked and assign to *)
(* their status; calibrationSteps[c] is the status of those objects for    *)
(* session c.  handleContinue assigns to the objects of the render it was  *)
(* created in, which no websocket handler holds (Start itself causes a     *)
(* render before the first message).  currentStep is between 0 and 2, so   *)
(* the test currentStep < calibrationSteps.length of the 'finished' branch *)
(* is always true; nothing else reads it and it is not represented.        *)
(***************************************************************************)
\* startCalibration up to the await of fetch.  monitorCalibrationProcess will
\* close over isCalibrating of this render.
startCalibration ==
  /\ page = "calibration"
  /\ StartButtonEnabled
  /\ BackendReady
  /\ CanSend
  /\ nSessions + Cardinality(InFlight("start")) < MaxSessions
  /\ running' = TRUE
  /\ net' = Sent(Req("start", 0, 0, running))
  /\ evt' = Event("start", "", <<>>)
  /\ UNCHANGED <<page, backendConnected, isRunning, sessionId, websocket, output, awaiting,
                 sending, motorConfigOutput, jointPositions, lastUpdateTime,
                 updateFrequency, polls, nSessions, conn, rcvd,
                 stopped, prevJointPositions, store, configurationVars,
                 calibrationSteps, trainingVars, simulationVars, replayVars>>

\* response.ok: setSessionId, startWebSocketConnection, monitorCalibrationProcess
\* (whose setInterval is never cleared: the function it returns is dropped)
startCalibrationOk ==
  /\ page = "calibration"
  /\ \E r \in InFlight("start") :
       /\ net' = Answered(r)
       /\ polls' = polls \cup {[sid |-> nSessions + 1, isCalibrating |-> r.cap]}
  /\ calibrationSteps' = [calibrationSteps EXCEPT ![nSessions + 1] = PendingSteps]
  /\ nSessions' = nSessions + 1
  /\ sessionId' = nSessions + 1
  /\ websocket' = nSessions + 1
  /\ conn' = OpenWebSocket(conn, nSessions + 1)
  /\ evt' = Event("start_ok", "", <<>>)
  /\ UNCHANGED <<page, backendConnected, running, isRunning, output, awaiting, sending,
                 motorConfigOutput, jointPositions, lastUpdateTime, updateFrequency, rcvd,
                 stopped, prevJointPositions, store, configurationVars,
                 trainingVars, simulationVars, replayVars>>

startCalibrationFailed ==
  /\ page = "calibration"
  /\ \E r \in InFlight("start") : net' = Answered(r)
  /\ running' = FALSE
  /\ evt' = Event("start_failed", "", <<>>)
  /\ UNCHANGED <<page, backendConnected, isRunning, sessionId, websocket, output, awaiting,
                 sending, motorConfigOutput, jointPositions, lastUpdateTime,
                 updateFrequency, polls, nSessions, conn, rcvd,
                 stopped, prevJointPositions, store, configurationVars,
                 calibrationSteps, trainingVars, simulationVars, replayVars>>

\* the 5 s connection timeout: ws.close() if the socket is still CONNECTING
\* (onopen, onerror and onclose clear the timer)
CalibrationConnectionTimeout ==
  /\ page = "calibration"
  /\ \E c \in Sessions :
       /\ conn[c] = "connecting"
       /\ conn' = Close(conn, c)
  /\ evt' = Event("ws_timeout", "", <<>>)
  /\ UNCHANGED <<page, backendConnected, running, isRunning, sessionId, websocket, output,
                 awaiting, sending, motorConfigOutput, jointPositions, lastUpdateTime,
                 updateFrequency, polls, nSessions, net, rcvd,
                 stopped, prevJointPositions, store, configurationVars,
                 calibrationSteps, trainingVars, simulationVars, replayVars>>

\* the prompt phrases looked for in the lower-cased output
CalibrationPrompt(cleanOutput) ==
  LET output_lower == ToLowerCase(cleanOutput)
  IN \/ Includes(output_lower, <<"p", "r", "e", "s", "s", " ", "e", "n", "t", "e", "r", ".", ".", ".", ".">>)
     \/ Includes(output_lower, <<"p", "r", "e", "s", "s", " ", "e", "n", "t", "e", "r", " ", "t", "o", " ", "s", "t", "o", "p">>)
     \/ Includes(output_lower, <<"p", "r", "e", "s", "s", " ", "e", "n", "t", "e", "r", " ", "t", "o", " ", "c", "o", "n", "t", "i", "n", "u", "e">>)
     \/ Includes(output_lower, <<"p", "r", "e", "s", "s", " ", "e", "n", "t", "e", "r">>)
     \/ /\ Includes(output_lower, <<"m", "o", "v", "e", " ", "t", "e", "s", "t">>)
        /\ Includes(output_lower, <<"m", "i", "d", "d", "l", "e", " ", "o", "f", " ", "i", "t", "s", " ", "r", "a", "n", "g", "e">>)
     \/ /\ Includes(output_lower, <<"m", "o", "v", "e", " ", "a", "l", "l", " ", "j", "o", "i", "n", "t", "s">>)
        /\ Includes(output_lower, <<"e", "n", "t", "i", "r", "e", " ", "r", "a", "n", "g", "e", "s">>)

\* the last branch of the else-if chain on the output: the completion phrases
CalibrationCompleted(cleanOutput) ==
  /\ ~Includes(cleanOutput, <<"C", "a", "l", "i", "b", "r", "a", "t", "i", "o", "n", " ", "s", "t", "a", "r", "t", "e", "d", " ", "f", "o", "r">>)
  /\ ~(Includes(cleanOutput, <<"M", "o", "v", "e", " ", "t", "e", "s", "t">>) /\ Includes(cleanOutput, <<"m", "i", "d", "d", "l", "e", " ", "o", "f", " ", "i", "t", "s", " ", "r", "a", "n", "g", "e">>))
  /\ ~(Includes(cleanOutput, <<"M", "o", "v", "e", " ", "a", "l", "l", " ", "j", "o", "i", "n", "t", "s">>) /\ Includes(cleanOutput, <<"e", "n", "t", "i", "r", "e", " ", "r", "a", "n", "g", "e", "s">>))
  /\ \/ Includes(cleanOutput, <<"C", "a", "l", "i", "b", "r", "a", "t", "i", "o", "n", " ", "c", "o", "m", "p", "l", "e", "t", "e", "d", " ", "s", "u", "c", "c", "e", "s", "s", "f", "u", "l", "l", "y">>)
     \/ Includes(cleanOutput, <<"P", "r", "o", "c", "e", "s", "s", " ", "f", "i", "n", "i", "s", "h", "e", "d">>)
     \/ Includes(cleanOutput, <<"C", "a", "l", "i", "b", "r", "a", "t", "i", "o", "n", " ", "c", "o", "m", "p", "l", "e", "t", "e", "d", "!">>)
     \/ Includes(cleanOutput, <<"e", "x", "i", "t", " ", "c", "o", "d", "e", " ", "0">>)
     \/ Includes(cleanOutput, <<"c", "a", "l", "i", "b", "r", "a", "t", "i", "o", "n", " ", "f", "i", "l", "e", "s", " ", "s", "a", "v", "e", "d">>)

\* waitingForUser after an output message
CalibrationWaitingAfter(old, data) ==
  LET cleanOutput == Trim(RemoveCR(data))
  IN IF CalibrationCompleted(cleanOutput) THEN FALSE
     ELSE IF CalibrationPrompt(cleanOutput) THEN TRUE
     ELSE old

\* the else-if chain on the output that assigns the step statuses
StepsAfterOutput(steps, cleanOutput) ==
  IF Includes(cleanOutput, <<"C", "a", "l", "i", "b", "r", "a", "t", "i", "o", "n", " ", "s", "t", "a", "r", "t", "e", "d", " ", "f", "o", "r">>)
    THEN [steps EXCEPT ![1] = "in-progress"]
  ELSE IF Includes(cleanOutput, <<"M", "o", "v", "e", " ", "t", "e", "s", "t">>) /\ Includes(cleanOutput, <<"m", "i", "d", "d", "l", "e", " ", "o", "f", " ", "i", "t", "s", " ", "r", "a", "n", "g", "e">>)
    THEN [steps EXCEPT ![1] = "completed", ![2] = "in-progress"]
  ELSE IF Includes(cleanOutput, <<"M", "o", "v", "e", " ", "a", "l", "l", " ", "j", "o", "i", "n", "t", "s">>) /\ Includes(cleanOutput, <<"e", "n", "t", "i", "r", "e", " ", "r", "a", "n", "g", "e", "s">>)
    THEN IF steps[2] = "completed" THEN [steps EXCEPT ![3] = "in-progress"] ELSE steps
  ELSE IF CalibrationCompleted(cleanOutput)
    THEN [i \in DOMAIN steps |->
            IF steps[i] \in {"pending", "in-progress"} THEN "completed" ELSE steps[i]]
  ELSE steps

\* status 'finished': every step still pending becomes completed
StepsAfterFinished(steps) ==
  [i \in DOMAIN steps |-> IF steps[i] = "pending" THEN "completed" ELSE steps[i]]

\* what an output message does, for each text that may arrive (worked out once)
CalibrationOutputEffect ==
  [text \in CalibrationTexts |->
     [waitingForUser |-> [old \in BOOLEAN |-> CalibrationWaitingAfter(old, text)],
      steps |-> [steps \in [1..3 -> {"pending", "in-progress", "completed"}] |->
                   StepsAfterOutput(steps, Trim(RemoveCR(text)))]]]

\* ws.onmessage, data.type === 'output'
CalibrationOnOutput ==
  /\ page = "calibration"
  /\ \E c \in Sessions, text \in CalibrationTexts :
       /\ conn[c] = "open"
       /\ awaiting' = CalibrationOutputEffect[text].waitingForUser[awaiting]
       /\ calibrationSteps' =
            [calibrationSteps EXCEPT ![c] = CalibrationOutputEffect[text].steps[@]]
       /\ evt' = Event("output", "", text)
  /\ UNCHANGED <<page, backendConnected, running, isRunning, sessionId, websocket, output,
                 sending, motorConfigOutput, jointPositions, lastUpdateTime,
                 updateFrequency, polls, nSessions, conn, net, rcvd,
                 stopped, prevJointPositions, store, configurationVars,
                 trainingVars, simulationVars, replayVars>>

\* ws.onmessage, data.type === 'status': only 'finished' has a branch
CalibrationOnStatus ==
  /\ page = "calibration"
  /\ \E c \in Sessions, st \in StatusValues :
       /\ conn[c] = "open"
       /\ running' = IF st = "finished" THEN FALSE ELSE running
       /\ awaiting' = IF st = "finished" THEN FALSE ELSE awaiting
       /\ calibrationSteps' =
            IF st = "finished"
              THEN [calibrationSteps EXCEPT ![c] = StepsAfterFinished(@)]
              ELSE calibrationSteps
       /\ evt' = Event("status", st, <<>>)
  /\ UNCHANGED <<page, backendConnected, isRunning, sessionId, websocket, output, sending,
                 motorConfigOutput, jointPositions, lastUpdateTime, updateFrequency,
                 polls, nSessions, conn, net, rcvd,
                 stopped, prevJointPositions, store, configurationVars,
                 trainingVars, simulationVars, replayVars>>

\* ws.onmessage, data.type === 'error': a toast
CalibrationOnErrorMessage ==
  /\ page = "calibration"
  /\ \E c \in Sessions : conn[c] = "open"
  /\ evt' = Event("error", "", T_boom)
  /\ UNCHANGED <<page, backendConnected, running, isRunning, sessionId, websocket, output,
                 awaiting, sending, motorConfigOutput, jointPositions, lastUpdateTime,
                 updateFrequency, polls, nSessions, conn, net, rcvd,
                 stopped, prevJointPositions, store, configurationVars,
                 calibrationSteps, trainingVars, simulationVars, replayVars>>

\* ws.onerror: clears the timeout.  The browser then closes the connection.
CalibrationOnError ==
  /\ page = "calibration"
  /\ \E c \in Sessions :
       /\ conn[c] \in {"connecting", "open"}
       /\ conn' = [conn EXCEPT ![c] = "closing"]
  /\ evt' = Event("ws_error", "", <<>>)
  /\ UNCHANGED <<page, backendConnected, running, isRunning, sessionId, websocket, output,
                 awaiting, sending, motorConfigOutput, jointPositions, lastUpdateTime,
                 updateFrequency, polls, nSessions, net, rcvd,
                 stopped, prevJointPositions, store, configurationVars,
                 calibrationSteps, trainingVars, simulationVars, replayVars>>

\* ws.onclose: clears the timeout
CalibrationOnClose ==
  /\ page = "calibration"
  /\ \E c \in Sessions :
       /\ conn[c] # "none"
       /\ conn' = [conn EXCEPT ![c] = "none"]
  /\ evt' = Event("ws_close", "", <<>>)
  /\ UNCHANGED <<page, backendConnected, running, isRunning, sessionId, websocket, output,
                 awaiting, sending, motorConfigOutput, jointPositions, lastUpdateTime,
                 updateFrequency, polls, nSessions, net, rcvd,
                 stopped, prevJointPositions, store, configurationVars,
                 calibrationSteps, trainingVars, simulationVars, replayVars>>

\* checkStatus, one tick of the interval of a monitorCalibrationProcess, with
\* its response: ok with is_waiting_for_input and is_running, or not ok / rejected
checkStatus ==
  /\ page = "calibration"
  /\ \E p \in polls :
       \/ \E is_waiting_for_input \in BOOLEAN, is_running \in BOOLEAN :
            /\ awaiting' = IF ~is_running /\ p.isCalibrating THEN FALSE
                           ELSE is_waiting_for_input
            /\ running' = IF ~is_running /\ p.isCalibrating THEN FALSE ELSE running
            /\ evt' = Event("poll", IF is_waiting_for_input THEN "waiting" ELSE "not_waiting",
                            <<>>)
       \/ /\ UNCHANGED <<awaiting, running>>
          /\ evt' = Event("poll", "failed", <<>>)
  /\ UNCHANGED <<page, backendConnected, isRunning, sessionId, websocket, output, sending,
                 motorConfigOutput, jointPositions, lastUpdateTime, updateFrequency,
                 polls, nSessions, conn, net, rcvd,
                 stopped, prevJointPositions, store, configurationVars,
                 calibrationSteps, trainingVars, simulationVars, replayVars>>

\* a Continue control rendered whatever waitingForUser is (not the page's: C3
\* tells the two apart)
CalibrationContinueAlwaysRendered == ~sending

\* the Continue button is rendered only while waitingForUser and is disabled
\* while isSendingInput
CalibrationContinueEnabled == awaiting /\ ~sending

\* handleContinue up to the await of fetch
handleContinue ==
  /\ page = "calibration"
  /\ CalibrationContinueEnabled
  /\ sessionId # 0 /\ ~sending
  /\ CanSend
  /\ sending' = TRUE
  /\ net' = Sent(Req("input", sessionId, 0, FALSE))
  /\ evt' = Event("continue", "", <<>>)
  /\ UNCHANGED <<page, backendConnected, running, isRunning, sessionId, websocket, output,
                 awaiting, motorConfigOutput, jointPositions, lastUpdateTime,
                 updateFrequency, polls, nSessions, conn, rcvd,
                 stopped, prevJointPositions, store, configurationVars,
                 calibrationSteps, trainingVars, simulationVars, replayVars>>

\* response.ok and result.success: setWaitingForUser(false), then a 500 ms wait
handleContinueOk ==
  /\ page = "calibration"
  /\ \E r \in InFlight("input") :
       net' = Answered(r) (+) SetToBag({Req("delay", r.sid, 0, FALSE)})
  /\ awaiting' = FALSE
  /\ evt' = Event("input_ok", "", <<>>)
  /\ UNCHANGED <<page, backendConnected, running, isRunning, sessionId, websocket, output,
                 sending, motorConfigOutput, jointPositions, lastUpdateTime,
                 updateFrequency, polls, nSessions, conn, rcvd,
                 stopped, prevJointPositions, store, configurationVars,
                 calibrationSteps, trainingVars, simulationVars, replayVars>>

\* the 500 ms have passed: finally, setIsSendingInput(false)
handleContinueDelayed ==
  /\ page = "calibration"
  /\ \E r \in InFlight("delay") : net' = Answered(r)
  /\ sending' = FALSE
  /\ evt' = Event("input_done", "", <<>>)
  /\ UNCHANGED <<page, backendConnected, running, isRunning, sessionId, websocket, output,
                 awaiting, motorConfigOutput, jointPositions, lastUpdateTime,
                 updateFrequency, polls, nSessions, conn, rcvd,
                 stopped, prevJointPositions, store, configurationVars,
                 calibrationSteps, trainingVars, simulationVars, replayVars>>

\* !response.ok, success false or a rejected fetch: a toast, then finally
handleContinueFailed ==
  /\ page = "calibration"
  /\ \E r \in InFlight("input") : net' = Answered(r)
  /\ sending' = FALSE
  /\ evt' = Event("input_failed", "", <<>>)
  /\ UNCHANGED <<page, backendConnected, running, isRunning, sessionId, websocket, output,
                 awaiting, motorConfigOutput, jointPositions, lastUpdateTime,
                 updateFrequency, polls, nSessions, conn, rcvd,
                 stopped, prevJointPositions, store, configurationVars,
                 calibrationSteps, trainingVars, simulationVars, replayVars>>

(***************************************************************************)
(* Motor setup on the configuration page (the Configuration component of   *)
(* DatasetReplay.tsx).  None of its fetches is in a try block: a rejected  *)
(* fetch ends the handler where it stands.                                 *)
(***************************************************************************)
\* runMotorConfigSession up to the await of fetch.  The button is disabled
\* while isRunningMotorConfig.
runMotorConfigSession ==
  /\ page = "configuration"
  /\ ~running
  /\ CanSend
  /\ nSessions + Cardinality(InFlight("start")) < MaxSessions
  /\ running' = TRUE
  /\ motorConfigOutput' = <<>>
  /\ rcvd' = <<>>
  /\ awaiting' = FALSE
  /\ sessionId' = 0
  /\ conn' = Close(conn, websocket)
  /\ net' = Sent(Req("start", 0, 0, FALSE))
  /\ evt' = Event("start", "", <<>>)
  /\ UNCHANGED <<page, backendConnected, isRunning, websocket, output, sending,
                 jointPositions, lastUpdateTime, updateFrequency, polls, nSessions,
                 stopped, prevJointPositions, store, configurationVars,
                 calibrationSteps, trainingVars, simulationVars, replayVars>>

\* resp.ok: setMotorConfigSessionId, new WebSocket, motorConfigSocket.current = ws
runMotorConfigSessionOk ==
  /\ page = "configuration"
  /\ \E r \in InFlight("start") : net' = Answered(r)
  /\ nSessions' = nSessions + 1
  /\ sessionId' = nSessions + 1
  /\ websocket' = nSessions + 1
  /\ conn' = OpenWebSocket(conn, nSessions + 1)
  /\ evt' = Event("start_ok", "", <<>>)
  /\ UNCHANGED <<page, backendConnected, running, isRunning, output, awaiting, sending,
                 motorConfigOutput, jointPositions, lastUpdateTime, updateFrequency,
                 polls, rcvd,
                 stopped, prevJointPositions, store, configurationVars,
                 calibrationSteps, trainingVars, simulationVars, replayVars>>

\* !resp.ok
runMotorConfigSessionNotOk ==
  /\ page = "configuration"
  /\ \E r \in InFlight("start") : net' = Answered(r)
  /\ motorConfigOutput' = <<"F", "a", "i", "l", "e", "d", " ", "t", "o", " ", "s", "t", "a", "r", "t", " ", "m", "o", "t", "o", "r", " ", "s", "e", "t", "u", "p", ".">>
  /\ running' = FALSE
  /\ evt' = Event("start_failed", "", <<>>)
  /\ UNCHANGED <<page, backendConnected, isRunning, sessionId, websocket, output, awaiting,
                 sending, jointPositions, lastUpdateTime, updateFrequency, polls,
                 nSessions, conn, rcvd,
                 stopped, prevJointPositions, store, configurationVars,
                 calibrationSteps, trainingVars, simulationVars, replayVars>>

\* the fetch was rejected: nothing after the await runs
runMotorConfigSessionRejected ==
  /\ page = "configuration"
  /\ \E r \in InFlight("start") : net' = Answered(r)
  /\ evt' = Event("start_rejected", "", <<>>)
  /\ UNCHANGED <<page, backendConnected, running, isRunning, sessionId, websocket, output,
                 awaiting, sending, motorConfigOutput, jointPositions, lastUpdateTime,
                 updateFrequency, polls, nSessions, conn, rcvd,
                 stopped, prevJointPositions, store, configurationVars,
                 calibrationSteps, trainingVars, simulationVars, replayVars>>

\* msg.data.toLowerCase().includes('press enter')
MotorPrompt(data) == Includes(ToLowerCase(data), <<"p", "r", "e", "s", "s", " ", "e", "n", "t", "e", "r">>)

\* ws.onmessage, msg.type === 'output'
MotorOnOutput ==
  /\ page = "configuration"
  /\ Len(rcvd) < MaxOutputs
  /\ \E c \in Sessions, text \in MotorTexts :
       /\ conn[c] = "open"
       /\ motorConfigOutput' = motorConfigOutput \o text
       /\ rcvd' = Append(rcvd, text)
       /\ awaiting' = IF MotorPrompt(text) THEN TRUE ELSE awaiting
       /\ evt' = Event("output", "", text)
  /\ UNCHANGED <<page, backendConnected, running, isRunning, sessionId, websocket, output,
                 sending, jointPositions, lastUpdateTime,
                 updateFrequency, polls, nSessions, conn, net,
                 stopped, prevJointPositions, store, configurationVars,
                 calibrationSteps, trainingVars, simulationVars, replayVars>>

\* ws.onmessage, msg.type === 'status': only 'finished' has a branch, which
\* also closes this socket
MotorOnStatus ==
  /\ page = "configuration"
  /\ \E c \in Sessions, st \in StatusValues :
       /\ conn[c] = "open"
       /\ running' = IF st = "finished" THEN FALSE ELSE running
       /\ awaiting' = IF st = "finished" THEN FALSE ELSE awaiting
       /\ conn' = IF st = "finished" THEN Close(conn, c) ELSE conn
       /\ evt' = Event("status", st, <<>>)
  /\ UNCHANGED <<page, backendConnected, isRunning, sessionId, websocket, output, sending,
                 motorConfigOutput, jointPositions, lastUpdateTime, updateFrequency,
                 polls, nSessions, net, rcvd,
                 stopped, prevJointPositions, store, configurationVars,
                 calibrationSteps, trainingVars, simulationVars, replayVars>>

\* ws.onmessage, msg.type === 'error'
MotorOnErrorMessage ==
  /\ page = "configuration"
  /\ \E c \in Sessions :
       /\ conn[c] = "open"
       /\ conn' = Close(conn, c)
  /\ motorConfigOutput' = motorConfigOutput \o <<"\n", "E", "R", "R", "O", "R", ":", " ">> \o T_boom
  /\ running' = FALSE
  /\ awaiting' = FALSE
  /\ evt' = Event("error", "", T_boom)
  /\ UNCHANGED <<page, backendConnected, isRunning, sessionId, websocket, output, sending,
                 jointPositions, lastUpdateTime, updateFrequency, polls, nSessions,
                 net, rcvd,
                 stopped, prevJointPositions, store, configurationVars,
                 calibrationSteps, trainingVars, simulationVars, replayVars>>

\* ws.onerror: appends a line, leaves the running state, ws.close()
MotorOnError ==
  /\ page = "configuration"
  /\ \E c \in Sessions :
       /\ conn[c] \in {"connecting", "open"}
       /\ conn' = [conn EXCEPT ![c] = "closing"]
  /\ motorConfigOutput' = motorConfigOutput \o <<"\n", "W", "e", "b", "S", "o", "c", "k", "e", "t", " ", "e", "r", "r", "o", "r", ".">>
  /\ running' = FALSE
  /\ awaiting' = FALSE
  /\ evt' = Event("ws_error", "", <<>>)
  /\ UNCHANGED <<page, backendConnected, isRunning, sessionId, websocket, output, sending,
                 jointPositions, lastUpdateTime, updateFrequency, polls, nSessions,
                 net, rcvd,
                 stopped, prevJointPositions, store, configurationVars,
                 calibrationSteps, trainingVars, simulationVars, replayVars>>

\* ws.onclose: a console line
MotorOnClose ==
  /\ page = "configuration"
  /\ \E c \in Sessions :
       /\ conn[c] # "none"
       /\ conn' = [conn EXCEPT ![c] = "none"]
  /\ evt' = Event("ws_close", "", <<>>)
  /\ UNCHANGED <<page, backendConnected, running, isRunning, sessionId, websocket, output,
                 awaiting, sending, motorConfigOutput, jointPositions, lastUpdateTime,
                 updateFrequency, polls, nSessions, net, rcvd,
                 stopped, prevJointPositions, store, configurationVars,
                 calibrationSteps, trainingVars, simulationVars, replayVars>>

\* a Continue button that isSendingMotorInput does not disable (not the page's:
\* C21 tells the two apart)
MotorContinueWhileSending == awaiting

\* the Continue button is rendered only while motorConfigWaiting and is disabled
\* while isSendingMotorInput
MotorContinueEnabled == awaiting /\ ~sending

\* sendMotorConfigContinue up to the await of fetch
sendMotorConfigContinue ==
  /\ page = "configuration"
  /\ MotorContinueEnabled
  /\ sessionId # 0
  /\ CanSend
  /\ sending' = TRUE
  /\ net' = Sent(Req("input", sessionId, 0, FALSE))
  /\ evt' = Event("continue", "", <<>>)
  /\ UNCHANGED <<page, backendConnected, running, isRunning, sessionId, websocket, output,
                 awaiting, motorConfigOutput, jointPositions, lastUpdateTime,
                 updateFrequency, polls, nSessions, conn, rcvd,
                 stopped, prevJointPositions, store, configurationVars,
                 calibrationSteps, trainingVars, simulationVars, replayVars>>

\* the fetch resolved; the response is not looked at, so ok tells the history
\* what the backend answered
sendMotorConfigContinueResolved ==
  /\ page = "configuration"
  /\ \E r \in InFlight("input") : net' = Answered(r)
  /\ awaiting' = FALSE
  /\ sending' = FALSE
  /\ \E ok \in BOOLEAN : evt' = Event(IF ok THEN "input_ok" ELSE "input_failed", "", <<>>)
  /\ UNCHANGED <<page, backendConnected, running, isRunning, sessionId, websocket, output,
                 motorConfigOutput, jointPositions, lastUpdateTime, updateFrequency,
                 polls, nSessions, conn, rcvd,
                 stopped, prevJointPositions, store, configurationVars,
                 calibrationSteps, trainingVars, simulationVars, replayVars>>

\* the fetch was rejected: nothing after the await runs
sendMotorConfigContinueRejected ==
  /\ page = "configuration"
  /\ \E r \in InFlight("input") : net' = Answered(r)
  /\ evt' = Event("input_rejected", "", <<>>)
  /\ UNCHANGED <<page, backendConnected, running, isRunning, sessionId, websocket, output,
                 awaiting, sending, motorConfigOutput, jointPositions, lastUpdateTime,
                 updateFrequency, polls, nSessions, conn, rcvd,
                 stopped, prevJointPositions, store, configurationVars,
                 calibrationSteps, trainingVars, simulationVars, replayVars>>

\* cancelMotorConfig up to the await of fetch.  The button is rendered while
\* isRunningMotorConfig and disabled while isSendingMotorInput.
cancelMotorConfig ==
  /\ page = "configuration"
  /\ running /\ ~sending
  /\ sessionId # 0
  /\ CanSend
  /\ net' = Sent(Req("stop", sessionId, 0, FALSE))
  /\ evt' = Event("stop", "", <<>>)
  /\ UNCHANGED <<page, backendConnected, running, isRunning, sessionId, websocket, output,
                 awaiting, sending, motorConfigOutput, jointPositions, lastUpdateTime,
                 updateFrequency, polls, nSessions, conn, rcvd,
                 stopped, prevJointPositions, store, configurationVars,
                 calibrationSteps, trainingVars, simulationVars, replayVars>>

\* the fetch resolved (with any HTTP status); closes motorConfigSocket.current
cancelMotorConfigResolved ==
  /\ page = "configuration"
  /\ \E r \in InFlight("stop") :
       /\ net' = Answered(r)
       /\ stopped' = stopped \cup {r.sid}
  /\ running' = FALSE
  /\ awaiting' = FALSE
  /\ sessionId' = 0
  /\ motorConfigOutput' = <<"[", "I", "N", "F", "O", "]", " ", "M", "o", "t", "o", "r", " ", "s", "e", "t", "u", "p", " ", "c", "a", "n", "c", "e", "l", "l", "e", "d", " ", "b", "y", " ", "u", "s", "e", "r">>
  /\ rcvd' = <<>>
  /\ conn' = Close(conn, websocket)
  /\ \E ok \in BOOLEAN : evt' = Event("stop_done", IF ok THEN "ok" ELSE "http_error", <<>>)
  /\ UNCHANGED <<page, backendConnected, isRunning, websocket, output, sending,
                 jointPositions, lastUpdateTime, updateFrequency, polls, nSessions,
                 prevJointPositions, store, configurationVars,
                 calibrationSteps, trainingVars, simulationVars, replayVars>>

\* the fetch was rejected: nothing after the await runs
cancelMotorConfigRejected ==
  /\ page = "configuration"
  /\ \E r \in InFlight("stop") : net' = Answered(r)
  /\ evt' = Event("stop_failed", "", <<>>)
  /\ UNCHANGED <<page, backendConnected, running, isRunning, sessionId, websocket, output,
                 awaiting, sending, motorConfigOutput, jointPositions, lastUpdateTime,
                 updateFrequency, polls, nSessions, conn, rcvd,
                 stopped, prevJointPositions, store, configurationVars,
                 calibrationSteps, trainingVars, simulationVars, replayVars>>

(***************************************************************************)
(* Camera streams of the configuration page (Configuration component,      *)
(* DatasetReplay.tsx).  A request carries the camera id and whether the     *)
(* component that sent it is still mounted; the backend answers a request   *)
(* with a success response ("ok"), an error response ("error") or not at    *)
(* all ("rejected": the fetch fails), and streams a camera from a start it  *)
(* answered with ok until a stop it answered with ok.                       *)
(***************************************************************************)
CameraIds == {"0", "1"}
CameraKinds == {"camera_start", "camera_delay", "camera_stop", "camera_stop_all"}
Outcomes == {"ok", "error", "rejected"}

\* the stream label of a listed camera is clicked: a DELETE if the camera is
\* in streamingCameras, a POST otherwise, up to the await of fetch
handleToggleStreaming ==
  /\ page = "configuration"
  /\ CanSend
  /\ \E id \in CameraIds :
       /\ net' = Sent(Req(IF id \in streamingCameras THEN "camera_stop" ELSE "camera_start",
                          id, 0, "mounted"))
       /\ evt' = Event("camera_click", "", id)
  /\ UNCHANGED <<page, backendConnected, running, isRunning, sessionId, websocket, output,
                 awaiting, sending, motorConfigOutput, jointPositions, lastUpdateTime,
                 updateFrequency, polls, nSessions, conn, rcvd,
                 stopped, prevJointPositions, store, configurationVars,
                 calibrationSteps, trainingVars, simulationVars, replayVars>>

\* the POST is answered: whatever the response, the 500 ms delay follows; a
\* rejected fetch ends in the catch block
CameraStartAnswered ==
  /\ \E r \in InFlight("camera_start") : \E o \in Outcomes :
       /\ net' = IF o = "rejected" THEN Answered(r)
                 ELSE Answered(r) (+) SetToBag({[r EXCEPT !.kind = "camera_delay"]})
       /\ activeStreams' = IF o = "ok" THEN activeStreams \cup {r.sid} ELSE activeStreams
       /\ evt' = Event("camera_start_answered", o, r.sid)
  /\ UNCHANGED <<page, backendConnected, running, isRunning, sessionId, websocket, output,
                 awaiting, sending, motorConfigOutput, jointPositions, lastUpdateTime,
                 updateFrequency, polls, nSessions, conn, rcvd,
                 stopped, prevJointPositions, store, streamingCameras,
                 envLoaded, hfEffect, hfFetches,
                 robotIdInput, robotIdTimeout, unsavedRobotId,
                 calibrationSteps, trainingVars, simulationVars, replayVars>>

\* the delay is over: setStreamingCameras(prev => new Set([...prev, camera.id]))
CameraStartDelayed ==
  /\ \E r \in InFlight("camera_delay") :
       /\ net' = Answered(r)
       /\ streamingCameras' = IF r.cap = "mounted" THEN streamingCameras \cup {r.sid}
                                                  ELSE streamingCameras
       /\ evt' = Event("camera_started", "", r.sid)
  /\ UNCHANGED <<page, backendConnected, running, isRunning, sessionId, websocket, output,
                 awaiting, sending, motorConfigOutput, jointPositions, lastUpdateTime,
                 updateFrequency, polls, nSessions, conn, rcvd,
                 stopped, prevJointPositions, store, activeStreams,
                 envLoaded, hfEffect, hfFetches,
                 robotIdInput, robotIdTimeout, unsavedRobotId,
                 calibrationSteps, trainingVars, simulationVars, replayVars>>

\* the DELETE of a click is answered: any response takes the camera out of
\* the set; a rejected fetch ends in the catch block
CameraStopAnswered ==
  /\ \E r \in InFlight("camera_stop") : \E o \in Outcomes :
       /\ net' = Answered(r)
       /\ activeStreams' = IF o = "ok" THEN activeStreams \ {r.sid} ELSE activeStreams
       /\ streamingCameras' = IF o # "rejected" /\ r.cap = "mounted"
                              THEN streamingCameras \ {r.sid} ELSE streamingCameras
       /\ evt' = Event("camera_stop_answered", o, r.sid)
  /\ UNCHANGED <<page, backendConnected, running, isRunning, sessionId, websocket, output,
                 awaiting, sending, motorConfigOutput, jointPositions, lastUpdateTime,
                 updateFrequency, polls, nSessions, conn, rcvd,
                 stopped, prevJointPositions, store, envLoaded, hfEffect, hfFetches,
                 robotIdInput, robotIdTimeout, unsavedRobotId,
                 calibrationSteps, trainingVars, simulationVars, replayVars>>

\* stops the first camera of the set only
stopFirstCameraStream(b, tag) ==
  IF streamingCameras = {} THEN b
  ELSE b (+) SetToBag({Req("camera_stop_all", CHOOSE id \in streamingCameras : TRUE, 0, tag)})

\* stopAllCameraStreams up to Promise.all: one DELETE for each camera of
\* streamingCamerasRef.current, all sent before the first is answered
stopAllCameraStreams(b, tag) ==
  b (+) SetToBag({Req("camera_stop_all", id, 0, tag) : id \in streamingCameras})

\* beforeunload while the component is mounted.  With no camera in the set
\* Promise.all([]) resolves at once.
handleBeforeUnload ==
  /\ page = "configuration"
  /\ \A r \in InFlight("camera_stop_all") : r.cap = "unmounted"
  /\ net' = stopAllCameraStreams(net, "mounted")
  /\ evt' = Event("stop_all", "", streamingCameras)
  /\ UNCHANGED <<page, backendConnected, running, isRunning, sessionId, websocket, output,
                 awaiting, sending, motorConfigOutput, jointPositions, lastUpdateTime,
                 updateFrequency, polls, nSessions, conn, rcvd,
                 stopped, prevJointPositions, store, configurationVars,
                 calibrationSteps, trainingVars, simulationVars, replayVars>>

\* a DELETE of stopAllCameraStreams is answered or fails (its own try/catch);
\* after the last one of the call, setStreamingCameras(new Set())
StopAllAnswered ==
  /\ \E r \in InFlight("camera_stop_all") : \E o \in Outcomes :
       /\ net' = Answered(r)
       /\ activeStreams' = IF o = "ok" THEN activeStreams \ {r.sid} ELSE activeStreams
       /\ streamingCameras' =
            IF r.cap = "mounted"
               /\ \A q \in BagToSet(Answered(r)) : ~(q.kind = "camera_stop_all" /\ q.cap = "mounted")
            THEN {} ELSE streamingCameras
       /\ evt' = Event("stop_all_answered", o, r.sid)
  /\ UNCHANGED <<page, backendConnected, running, isRunning, sessionId, websocket, output,
                 awaiting, sending, motorConfigOutput, jointPositions, lastUpdateTime,
                 updateFrequency, polls, nSessions, conn, rcvd,
                 stopped, prevJointPositions, store, envLoaded, hfEffect, hfFetches,
                 robotIdInput, robotIdTimeout, unsavedRobotId,
                 calibrationSteps, trainingVars, simulationVars, replayVars>>

(***************************************************************************)
(* Hugging Face credentials.  The fetchHfEnv effect of the Configuration   *)
(* component runs after the first render and after every render in which   *)
(* hfUser or hfToken has changed, before any later event is handled; what  *)
(* it does with the response is decided by the hfUser and hfToken of the   *)
(* render it ran in.  The setters are the store's and act whether or not   *)
(* the component is still mounted.                                         *)
(***************************************************************************)
HfInputs == {"", "me"}
HfEnvValues == {"", "env"}

\* the effect body up to the await of fetch
fetchHfEnv ==
  /\ page = "configuration"
  /\ hfEffect
  /\ hfEffect' = FALSE
  /\ hfFetches' = hfFetches \cup
       {[user |-> store.hfUser, token |-> store.hfToken, cap |-> "mounted"]}
  /\ evt' = Event("hf_fetch", "", <<>>)
  /\ UNCHANGED <<pageVars, store, streamingCameras, activeStreams, envLoaded,
                 robotIdInput, robotIdTimeout, unsavedRobotId>>

\* if (data.hf_user && !hfUser) setHfUser(data.hf_user), and the same for the
\* token, with hfUser and hfToken the closure's
ApplyHfEnv(state, c, data) ==
  LET s1 == IF data.hf_user # "" /\ c.user = "" THEN Merge(state, [hfUser |-> data.hf_user])
                                               ELSE state
  IN IF data.hf_token # "" /\ c.token = "" THEN Merge(s1, [hfToken |-> data.hf_token]) ELSE s1

\* the request is answered: with the environment's values, with an error
\* response (nothing happens), or the fetch fails (the catch block)
fetchHfEnvAnswered ==
  /\ ~hfEffect
  /\ \E c \in hfFetches : \E o \in Outcomes :
     \E data \in [hf_user : HfEnvValues, hf_token : HfEnvValues] :
       /\ hfFetches' = hfFetches \ {c}
       /\ store' = IF o = "ok" THEN ApplyHfEnv(store, c, data) ELSE store
       /\ envLoaded' = IF o # "error" /\ c.cap = "mounted" THEN TRUE ELSE envLoaded
       /\ hfEffect' = (page = "configuration" /\ store' # store)
       /\ evt' = Event("hf_env", o, <<>>)
  /\ UNCHANGED <<pageVars, streamingCameras, activeStreams,
                 robotIdInput, robotIdTimeout, unsavedRobotId>>

\* onChange of the username or token input of the configuration page, or of
\* the username input of the recording and replay pages
HfEdit ==
  /\ ~hfEffect
  /\ Cardinality(hfFetches) < MaxInFlight
  /\ \E f \in {"hfUser", "hfToken"} : \E v \in HfInputs :
       /\ page = "configuration" \/ (f = "hfUser" /\ page \in {"recording", "replay"})
       /\ v # store[f]
       /\ store' = Merge(store, [x \in {f} |-> v])
       /\ evt' = Event("hf_edit", f, v)
  /\ hfEffect' = (page = "configuration")
  /\ UNCHANGED <<pageVars, streamingCameras, activeStreams, envLoaded, hfFetches,
                 robotIdInput, robotIdTimeout, unsavedRobotId>>

(***************************************************************************)
(* The robot-ID inputs of the configuration page.  Each input has its own  *)
(* timer; the timer's callback reads the input's value when it runs.  The  *)
(* effects that copy armConfig.leaderRobotId / followerRobotId into the    *)
(* inputs run after the render that follows a save.                        *)
(***************************************************************************)
RobotIds == {"", "arm1", "arm2"}

\* onChange of a robot-ID input: set the input, clear the field's timer, set
\* a new one of 1000 ms
handleRobotIdChange ==
  /\ page = "configuration"
  /\ \E f \in RobotIdFields : \E v \in RobotIds \ {robotIdInput[f]} :
       /\ robotIdInput' = [robotIdInput EXCEPT ![f] = v]
       /\ robotIdTimeout' = [robotIdTimeout EXCEPT ![f] = TRUE]
       /\ unsavedRobotId' = [unsavedRobotId EXCEPT ![f] = TRUE]
       /\ evt' = Event("robot_id_edit", f, v)
  /\ UNCHANGED <<pageVars, store, streamingCameras, activeStreams, envLoaded, hfEffect,
                 hfFetches>>

\* the timer of a field runs out: setArmConfig with the input's value
RobotIdTimeout ==
  /\ page = "configuration"
  /\ \E f \in RobotIdFields :
       /\ robotIdTimeout[f]
       /\ store' = setArmConfig(store, [x \in {f} |-> robotIdInput[f]])
       /\ robotIdInput' = [robotIdInput EXCEPT ![f] = store'.armConfig[f]]
       /\ robotIdTimeout' = [robotIdTimeout EXCEPT ![f] = FALSE]
       /\ unsavedRobotId' = [unsavedRobotId EXCEPT ![f] = FALSE]
       /\ evt' = Event("robot_id_saved", f, robotIdInput[f])
  /\ UNCHANGED <<pageVars, streamingCameras, activeStreams, envLoaded, hfEffect, hfFetches>>

(***************************************************************************)
(* Leaving the page.  The component's state is discarded and another page  *)
(* is mounted.  The configuration page closes motorConfigSocket.current    *)
(* and calls stopAllCameraStreams from each of its two unmount cleanups;    *)
(* the other pages close nothing.  Sockets, requests and intervals the old *)
(* instance leaves behind call setters of an unmounted component, which    *)
(* change no state, so they are dropped here, except the camera requests,  *)
(* which the backend still acts on.                                        *)
(***************************************************************************)
\* the camera requests of the instance that goes away stay in flight
LeftBehind(b) ==
  LET gone == {[r EXCEPT !.cap = "unmounted"] : r \in {q \in BagToSet(b) : q.kind \in CameraKinds}}
  IN [u \in gone |-> CopiesIn([u EXCEPT !.cap = "mounted"], b) + CopiesIn(u, b)]

Unmount ==
  /\ \E p \in Pages \ {page} : page' = p
  /\ backendConnected' = "unknown"
  /\ running' = FALSE /\ isRunning' = FALSE
  /\ sessionId' = 0 /\ websocket' = 0
  /\ output' = <<>> /\ awaiting' = FALSE /\ sending' = FALSE
  /\ motorConfigOutput' = <<>>
  /\ jointPositions' = <<>> /\ lastUpdateTime' = <<>> /\ updateFrequency' = <<>>
  /\ polls' = {} /\ nSessions' = 0
  /\ conn' = [c \in Sessions |-> "none"]
  /\ net' = stopAllCameraStreams(stopAllCameraStreams(LeftBehind(net), "unmounted"),
                                 "unmounted")
  /\ rcvd' = <<>>
  /\ stopped' = {} /\ prevJointPositions' = <<>>
  /\ streamingCameras' = {}
  /\ envLoaded' = FALSE /\ hfEffect' = (page' = "configuration")
  /\ hfFetches' = {[c EXCEPT !.cap = "unmounted"] : c \in hfFetches}
  /\ robotIdInput' = [f \in RobotIdFields |-> store.armConfig[f]]
  /\ robotIdTimeout' = [f \in RobotIdFields |-> FALSE]
  /\ calibrationSteps' = [c \in Sessions |-> PendingSteps]
  /\ evt' = Event("unmount", "", <<>>)
  /\ UNCHANGED <<store, activeStreams, unsavedRobotId, trainingVars, simulationVars,
                 replayVars>>

Next ==
  \/ checkBackendConnection
  \/ StartRefused
  \/ StartLogSession \/ StartLogSessionOk \/ StartLogSessionFailed
  \/ StopLogSession \/ StopLogSessionDone \/ StopLogSessionFailed
  \/ LogOnOutput \/ TeleopOnTable \/ LogOnStatus \/ LogOnErrorMessage
  \/ WsOnOpen \/ LogOnError \/ LogOnClose
  \/ startCalibration \/ startCalibrationOk \/ startCalibrationFailed
  \/ CalibrationConnectionTimeout
  \/ CalibrationOnOutput \/ CalibrationOnStatus \/ CalibrationOnErrorMessage
  \/ CalibrationOnError \/ CalibrationOnClose
  \/ checkStatus
  \/ handleContinue \/ handleContinueOk \/ handleContinueDelayed \/ handleContinueFailed
  \/ runMotorConfigSession \/ runMotorConfigSessionOk \/ runMotorConfigSessionNotOk
  \/ runMotorConfigSessionRejected
  \/ MotorOnOutput \/ MotorOnStatus \/ MotorOnErrorMessage \/ MotorOnError \/ MotorOnClose
  \/ sendMotorConfigContinue \/ sendMotorConfigContinueResolved
  \/ sendMotorConfigContinueRejected
  \/ cancelMotorConfig \/ cancelMotorConfigResolved \/ cancelMotorConfigRejected
  \/ Unmount

Spec == Init /\ [][Next]_vars

(***************************************************************************)
(* Properties.                                                             *)
(***************************************************************************)
\* requests of a kind that a step puts in flight
NewRequests(kind) ==
  {r \in BagToSet(net') : r.kind = kind /\ CopiesIn(r, net') > CopiesIn(r, net)}

\* the events on which a page gives its session up or takes a new one
SessionEnds(e) ==
  \/ e.type \in {"start", "stop_done", "unmount", "error", "ws_error"}
  \/ e.type = "status" /\ e.status \in TerminalStatus
  \/ e.type = "output" /\ CalibrationCompleted(Trim(RemoveCR(e.text)))

\* C1: on the calibration and motor-setup pages the awaiting-input flag, once
\* true, stays true until a submit_input request succeeds or the session ends
\* (a status poll in which the backend reports the state counts as the
\* backend's word on both).
C1_AwaitingHeldUntilInput ==
  [][(awaiting /\ ~awaiting') =>
       \/ evt'.type = "input_ok"
       \/ evt'.type = "poll"
       \/ SessionEnds(evt')]_vars

\* C2: the awaiting-input flag is driven by status messages alone: it becomes
\* true only on status awaiting_input, it becomes false only on the following
\* status running (or when the session ends), and neither the text of an
\* output message nor a status poll changes it.
C2_AwaitingDrivenByStatus ==
  [][/\ (~awaiting /\ awaiting') =>
          (evt'.type = "status" /\ evt'.status = "awaiting_input")
     /\ (awaiting /\ ~awaiting') =>
          ((evt'.type = "status" /\ evt'.status = "running") \/ SessionEnds(evt'))
     /\ evt'.type \in {"output", "poll"} => awaiting' = awaiting]_vars

\* C3: a submit_input request is sent only while the awaiting-input flag is
\* true, and it is sent for the session the page holds; with the flag false
\* the Continue control sends nothing.
C3_InputOnlyWhileAwaiting ==
  [][\A r \in NewRequests("input") : awaiting /\ r.sid = sessionId /\ r.sid # 0]_vars

\* C3 witness: Continue has been pressed on a prompt and its request is in flight
C3_Witness ==
  /\ evt.type = "continue"
  /\ awaiting
  /\ InFlight("input") # {}

\* C4: after a status message with a terminal state (finished, failed,
\* stopped) the page's running flag is false and its awaiting-input flag is
\* cleared.
C4_TerminalStatusLeavesRunning ==
  (evt.type = "status" /\ evt.status \in TerminalStatus) => (~running /\ ~awaiting)

\* C5: on the teleoperation, recording and replay pages the log holds every
\* output message received since it was last cleared, in arrival order.
C5_LogIsWhatWasReceived ==
  page \in LogPages => output = rcvd

\* C6: after a table message the joint-position map is exactly the map decoded
\* from that message; a joint that only the map before it had is gone.
C6_TableReplacesMap ==
  evt.type = "table" =>
    /\ jointPositions = parseTableData(evt.text).positions
    /\ \A k \in DOMAIN prevJointPositions :
         k \notin DOMAIN parseTableData(evt.text).positions => k \notin DOMAIN jointPositions

\* C6 witness: a table message has dropped a joint of the map it found
C6_Witness ==
  /\ evt.type = "table"
  /\ jointPositions # <<>>
  /\ \E k \in DOMAIN prevJointPositions : k \notin DOMAIN jointPositions

\* Whatever limit a scrollback had, a session can deliver one more message
\* than it; the model admits MaxOutputs messages per log.
ScrollbackLimit == MaxOutputs - 1
LongestText == Len(T_PressENTER)

\* C8: the retained output never exceeds a fixed limit: the entries of the log
\* and, for motor setup, the length of the text.
C8_ScrollbackBounded ==
  /\ Len(output) <= ScrollbackLimit
  /\ Len(motorConfigOutput) <= ScrollbackLimit * LongestText

\* what a page shows and holds of its session
PageState ==
  <<running, isRunning, sessionId, websocket, output, awaiting, sending,
    motorConfigOutput, jointPositions, lastUpdateTime, updateFrequency>>

\* C9: the completion of a Stop (or Cancel) for a session whose stop has
\* already completed leaves the page as the first completion left it.
C9_SecondStopChangesNothing ==
  [][\A r \in InFlight("stop") :
       (evt'.type = "stop_done" /\ net' = Answered(r) /\ r.sid \in stopped)
         => PageState' = PageState]_vars

\* C10: a step puts a stop request in flight only if it is the user's Stop or
\* Cancel; a websocket error, a close, the connection timeout and leaving the
\* page send none.
C10_StopOnlyOnUserAction ==
  [][/\ NewRequests("stop") # {} => evt'.type = "stop"
     /\ evt'.type \in {"ws_error", "ws_close", "ws_timeout", "unmount"}
          => \A r \in BagToSet(net') : r.kind = "stop" => CopiesIn(r, net') <= CopiesIn(r, net)]_vars

\* C10 witness: the websocket of a running session has failed
C10_Witness ==
  /\ evt.type = "ws_error"
  /\ running
  /\ sessionId # 0
  /\ InFlight("stop") = {}

(***************************************************************************)
(* parseTableData on its own: a table block is drawn from lines of known   *)
(* make, and the function is applied to its text.                          *)
(***************************************************************************)
MaxLines == 3

Line(text, kind, name, value, time, freq) ==
  [text |-> text, kind |-> kind, name |-> name, value |-> value, time |-> time, freq |-> freq]

\* lines a block is made of: well-formed joint lines (two of them for the same
\* joint), the timing line, and malformed lines: a value that is no number, a
\* value that is a number followed by letters, no separator
TableLines ==
  { Line(<<"j", "1", ".", "p", "o", "s", " ", "|", " ", "1", ".", "0">>, "joint", <<"j", "1">>, 1000, <<>>, <<>>),
    Line(<<"j", "2", ".", "p", "o", "s", " ", "|", " ", "2", ".", "0">>, "joint", <<"j", "2">>, 2000, <<>>, <<>>),
    Line(<<"j", "1", ".", "p", "o", "s", " ", "|", " ", "3", ".", "5">>, "joint", <<"j", "1">>, 3500, <<>>, <<>>),
    Line(<<"t", "i", "m", "e", ":", " ", "5", "m", "s", " ", "(", "2", "0", "0", " ", "H", "z", ")">>, "timing", <<>>, 0, <<"5", "m", "s">>, <<"2", "0", "0", " ", "H", "z">>),
    Line(<<"j", "2", ".", "p", "o", "s", " ", "|", " ", "a", "b", "c">>, "malformed", <<>>, 0, <<>>, <<>>),
    Line(<<"j", "2", ".", "p", "o", "s", " ", "|", " ", "1", ".", "0", "a", "b", "c">>, "malformed", <<>>, 0, <<>>, <<>>),
    Line(<<"j", "2", ".", "p", "o", "s", " ", "2", ".", "0">>, "malformed", <<>>, 0, <<>>, <<>>) }

LineSeqs == UNION {[1..n -> TableLines] : n \in 0..MaxLines}

\* the lines joined by line feeds
RECURSIVE JoinLines(_)
JoinLines(texts) ==
  IF texts = <<>> THEN <<>>
  ELSE IF Len(texts) = 1 THEN texts[1]
  ELSE texts[1] \o <<"\n">> \o JoinLines(Tail(texts))

ParseInit ==
  /\ page = "teleoperation"
  /\ backendConnected = "unknown"
  /\ running = FALSE /\ isRunning = FALSE
  /\ sessionId = 0 /\ websocket = 0
  /\ output = <<>> /\ awaiting = FALSE /\ sending = FALSE
  /\ motorConfigOutput = <<>>
  /\ jointPositions = <<>> /\ lastUpdateTime = <<>> /\ updateFrequency = <<>>
  /\ polls = {} /\ nSessions = 0
  /\ conn = [c \in Sessions |-> "none"]
  /\ net = EmptyBag
  /\ stopped = {} /\ prevJointPositions = <<>>
  /\ store = InitialStore("", "")
  /\ streamingCameras = {} /\ activeStreams = {}
  /\ envLoaded = FALSE /\ hfEffect = FALSE /\ hfFetches = {}
  /\ robotIdInput = [f \in RobotIdFields |-> ""]
  /\ robotIdTimeout = [f \in RobotIdFields |-> FALSE]
  /\ unsavedRobotId = [f \in RobotIdFields |-> FALSE]
  /\ calibrationSteps = [c \in Sessions |-> PendingSteps]
  /\ trainingStatus = [isRunning |-> FALSE, isCompleted |-> FALSE, error |-> "null"]
  /\ trainingTimers = {} /\ trainingRun = 0
  /\ trainingProgress = <<>> /\ isPaused = FALSE
  /\ ticks = 0 /\ uninterrupted = FALSE
  /\ replayState = [isPlaying |-> FALSE, isPaused |-> FALSE, currentFrame |-> 0,
                    totalFrames |-> 0, loop |-> FALSE]
  /\ selectedDataset = ""
  /\ \E ls \in LineSeqs :
       /\ rcvd = [i \in 1..Len(ls) |-> ls[i].text]
       /\ evt = Event("block", "", JoinLines([i \in 1..Len(ls) |-> ls[i].text]))

\* const { positions, timeInfo, freqInfo } = parseTableData(data.data), kept
\* as the table branch of the message handler keeps it
ParseTable ==
  /\ evt.type = "block"
  /\ LET t == parseTableData(evt.text)
     IN /\ jointPositions' = t.positions
        /\ lastUpdateTime' = t.timeInfo
        /\ updateFrequency' = t.freqInfo
  /\ evt' = Event("parsed", "", evt.text)
  /\ UNCHANGED <<page, backendConnected, running, isRunning, sessionId, websocket, output,
                 awaiting, sending, motorConfigOutput, polls, nSessions, conn, net, rcvd,
                 stopped, prevJointPositions, store, configurationVars,
                 calibrationSteps, trainingVars, simulationVars, replayVars>>

ParseNext == ParseTable

SpecParse == ParseInit /\ [][ParseNext]_vars

\* the line of TableLines with the given text
LineOf(text) == CHOOSE l \in TableLines : l.text = text

\* the last index of ls at which P holds (0: none)
LastOf(ls, P(_)) ==
  LET hits == {i \in 1..Len(ls) : P(ls[i])}
  IN IF hits = {} THEN 0 ELSE CHOOSE i \in hits : \A j \in hits : j <= i

\* what the lines of a block stand for: one entry per well-formed joint line,
\* the last line of a joint giving its value, and the timing of the timing line
ExpectedTable(ls) ==
  LET joints == {ls[i].name : i \in {j \in 1..Len(ls) : ls[j].kind = "joint"}}
      IsTiming(l) == l.kind = "timing"
      t == LastOf(ls, IsTiming)
  IN [positions |-> [n \in joints |->
                       LET IsJoint(l) == l.kind = "joint" /\ l.name = n
                       IN ls[LastOf(ls, IsJoint)].value],
      timeInfo |-> IF t = 0 THEN <<>> ELSE ls[t].time,
      freqInfo |-> IF t = 0 THEN <<>> ELSE ls[t].freq]

\* C7: parseTableData decodes a block into one entry for each well-formed
\* joint line (a later line of the same joint overriding an earlier one) and
\* the latency and rate of the timing line, with no entry for a malformed
\* line; the block j1.pos | 1.0, j2.pos | 2.0, time: 5ms (200 Hz) decodes to
\* {j1: 1.0, j2: 2.0}, 5ms and 200 Hz.
C7_DecodesWellFormedLines ==
  evt.type = "parsed" =>
    LET expected == ExpectedTable([i \in 1..Len(rcvd) |-> LineOf(rcvd[i])])
    IN /\ DOMAIN jointPositions = DOMAIN expected.positions
       /\ \A n \in DOMAIN jointPositions : jointPositions[n] = expected.positions[n]
       /\ lastUpdateTime = expected.timeInfo
       /\ updateFrequency = expected.freqInfo

(***************************************************************************)
(* Starting and stopping against the backend.                              *)
(***************************************************************************)
StartPages == LogPages \cup {"calibration"}

\* C13: on the teleoperation, recording, replay and calibration pages a start
\* request is sent, and the page enters running, only while the last health
\* check left backendConnected true; a start turned down for that reason
\* sends nothing and leaves the page's session state as it was.
C13_StartNeedsHealthyBackend ==
  [][ /\ (page \in StartPages /\ (NewRequests("start") # {} \/ (~running /\ running')))
           => (backendConnected = "connected" /\ NewRequests("start") # {} /\ running')
      /\ evt'.type = "start_refused"
           => (backendConnected # "connected" /\ net' = net /\ conn' = conn
               /\ PageState' = PageState)
    ]_vars

C13_Witness ==
  /\ page \in StartPages
  /\ evt.type = "start_refused"
  /\ backendConnected = "unknown"
  /\ ~running
  /\ BagCardinality(net) = 0

\* C19: the completion of a stop request that the backend answered with an
\* error response leaves the page running, with its session id.
C19_StopNeedsConfirmation ==
  [][ (evt'.type = "stop_done" /\ evt'.status = "http_error")
        => (running' = running /\ sessionId' = sessionId) ]_vars

\* C20: after a start request failed, by an error response or by a network
\* failure, the page is not running and has opened no websocket for it.
C20_FailedStartReturnsToIdle ==
  evt.type \in {"start_failed", "start_rejected"} => (~running /\ websocket = 0)

(***************************************************************************)
(* The store on its own: its setters called with every input of the sets   *)
(* below, in any order.                                                    *)
(***************************************************************************)
MaxCameras == 2
MaxDatasets == 2

ArmConfigUpdates ==
  { [leaderPort |-> "/dev/ttyACM0"],
    [leaderRobotId |-> "arm1", followerConnected |-> TRUE] }

TrainingConfigUpdates ==
  { [epochs |-> 5, datasetPath |-> "./data"] }

SessionUpdates ==
  { [isReplaying |-> TRUE], [isReplaying |-> FALSE] }

\* camera and dataset records carry the fields the store reads (id, enabled)
\* and a name that tells two records of one id apart
CameraValues == [id : {"0", "1"}, name : {"Camera 0"}, enabled : BOOLEAN]
DatasetValues == [id : {"d1", "d2"}, name : {"first", "second"}]

StoreInit ==
  /\ Mounted("configuration")
  /\ evt = Event("mount", "", <<>>)
  /\ store = InitialStore("", "")
  /\ activeStreams = {}
  /\ hfFetches = {}
  /\ unsavedRobotId = [f \in RobotIdFields |-> FALSE]

\* a component calls the setter `name` with `arg`
Call(name, arg, state) ==
  /\ store' = state
  /\ evt' = Event(name, "", arg)
  /\ UNCHANGED <<pageVars, configurationVars>>

StoreStep ==
  \/ \E c \in ArmConfigUpdates : Call("setArmConfig", c, setArmConfig(store, c))
  \/ \E c \in TrainingConfigUpdates : Call("setTrainingConfig", c, setTrainingConfig(store, c))
  \/ \E c \in SessionUpdates : Call("setSessionState", c, setSessionState(store, c))
  \/ /\ Len(store.cameras) < MaxCameras
     /\ \E c \in CameraValues :
          Call("setCameras", c, Merge(store, [cameras |-> Append(store.cameras, c)]))
  \/ \E id \in {"0", "1", "9"} : Call("toggleCamera", id, toggleCamera(store, id))
  \/ /\ Len(store.datasets) < MaxDatasets
     /\ \E d \in DatasetValues : Call("addDataset", d, addDataset(store, d))
  \/ \E id \in {"d1", "d2", "d9"} : Call("removeDataset", id, removeDataset(store, id))

SpecStore == StoreInit /\ [][StoreStep]_vars

\* the fields of group g that a partial update c does not give
Kept(g, c) == DOMAIN store[g] \ DOMAIN c

\* C16: setArmConfig, setTrainingConfig and setSessionState called with a
\* partial update give the fields of the update their new values and leave
\* every other field of the group, and every other part of the store, as it was.
C16_PartialUpdateKeepsTheRest ==
  /\ \A c \in ArmConfigUpdates :
       LET s == setArmConfig(store, c)
       IN /\ \A f \in DOMAIN c : s.armConfig[f] = c[f]
          /\ \A f \in Kept("armConfig", c) :
               f \in DOMAIN s.armConfig /\ s.armConfig[f] = store.armConfig[f]
          /\ \A g \in DOMAIN store \ {"armConfig"} : g \in DOMAIN s /\ s[g] = store[g]
  /\ \A c \in TrainingConfigUpdates :
       LET s == setTrainingConfig(store, c)
       IN /\ \A f \in DOMAIN c : s.trainingConfig[f] = c[f]
          /\ \A f \in Kept("trainingConfig", c) :
               f \in DOMAIN s.trainingConfig /\ s.trainingConfig[f] = store.trainingConfig[f]
          /\ \A g \in DOMAIN store \ {"trainingConfig"} : g \in DOMAIN s /\ s[g] = store[g]
  /\ \A c \in SessionUpdates :
       LET s == setSessionState(store, c)
       IN /\ \A f \in DOMAIN c : s.currentSession[f] = c[f]
          /\ \A f \in Kept("currentSession", c) :
               f \in DOMAIN s.currentSession /\ s.currentSession[f] = store.currentSession[f]
          /\ \A g \in DOMAIN store \ {"currentSession"} : g \in DOMAIN s /\ s[g] = store[g]

\* a partial update was applied to a group whose other fields had been changed
C16_Witness ==
  /\ evt.type = "setArmConfig"
  /\ evt.text = [leaderPort |-> "/dev/ttyACM0"]
  /\ store.armConfig.leaderPort = "/dev/ttyACM0"
  /\ store.armConfig.leaderRobotId = "arm1"
  /\ store.armConfig.followerConnected
  /\ store.currentSession.isReplaying
  /\ store.trainingConfig.epochs = 5

\* C17: toggleCamera(id) inverts enabled of the cameras with that id and
\* leaves every other camera, the order and the length of the list and the
\* rest of the store as they were; called twice it restores the list; with an
\* id no camera has it changes nothing.
C17_ToggleCamera ==
  \A id \in {"0", "1", "9"} :
    LET s == toggleCamera(store, id)
        n == Len(store.cameras)
    IN /\ Len(s.cameras) = n
       /\ \A i \in 1..n :
            /\ s.cameras[i].id = store.cameras[i].id
            /\ s.cameras[i].name = store.cameras[i].name
            /\ s.cameras[i].enabled =
                 IF store.cameras[i].id = id THEN ~store.cameras[i].enabled
                                             ELSE store.cameras[i].enabled
       /\ \A g \in DOMAIN store \ {"cameras"} : s[g] = store[g]
       /\ toggleCamera(s, id) = store
       /\ (\A i \in 1..n : store.cameras[i].id # id) => s = store

C17_Witness ==
  /\ evt.type = "toggleCamera"
  /\ evt.text = "1"
  /\ Len(store.cameras) = 2
  /\ store.cameras[1].id = "0" /\ store.cameras[1].enabled
  /\ store.cameras[2].id = "1" /\ ~store.cameras[2].enabled

\* C18: addDataset appends the dataset at the end of the list;
\* removeDataset(id) removes every dataset with that id and keeps the others
\* in their order; adding a dataset whose id is not in the list and removing
\* that id restores the list.
C18_AddRemoveDataset ==
  /\ \A d \in DatasetValues :
       LET s == addDataset(store, d)
       IN /\ s.datasets = store.datasets \o <<d>>
          /\ \A g \in DOMAIN store \ {"datasets"} : s[g] = store[g]
          /\ (\A i \in 1..Len(store.datasets) : store.datasets[i].id # d.id)
                => removeDataset(s, d.id) = store
  /\ \A id \in {"d1", "d2", "d9"} :
       LET s == removeDataset(store, id)
       IN /\ \A i \in 1..Len(s.datasets) : s.datasets[i].id # id
          /\ s.datasets = SelectSeq(store.datasets, LAMBDA d : d.id # id)
          /\ \A g \in DOMAIN store \ {"datasets"} : s[g] = store[g]

\* a second dataset of an id already in the list was appended after the first
C18_Witness ==
  /\ evt.type = "addDataset"
  /\ evt.text = [id |-> "d1", name |-> "second"]
  /\ store.datasets = <<[id |-> "d1", name |-> "first"], [id |-> "d1", name |-> "second"]>>

(***************************************************************************)
(* The camera streams of the configuration page, with pages left and      *)
(* entered again.                                                          *)
(***************************************************************************)
CamerasNext ==
  \/ handleToggleStreaming \/ CameraStartAnswered \/ CameraStartDelayed
  \/ CameraStopAnswered \/ handleBeforeUnload \/ StopAllAnswered
  \/ Unmount

SpecCameras == Init /\ [][CamerasNext]_vars

\* the stop requests in flight for a camera, whoever sent them
StopRequests(b, id) ==
  LET S == {r \in BagToSet(b) : r.kind \in {"camera_stop", "camera_stop_all"} /\ r.sid = id}
      RECURSIVE Sum(_)
      Sum(T) == IF T = {} THEN 0
                ELSE LET r == CHOOSE x \in T : TRUE IN CopiesIn(r, b) + Sum(T \ {r})
  IN Sum(S)

\* the requests of a stopAllCameraStreams call of the mounted component
MountedStopAll(b) ==
  {r \in BagToSet(b) : r.kind = "camera_stop_all" /\ r.cap = "mounted"}

\* C11: stopAllCameraStreams sends a stop request for every camera of the
\* streaming set, whether it is called from beforeunload or from the unmount
\* cleanups; once the last of its requests has been answered, with whatever
\* outcome for each, the streaming set is empty.
C11_StopAllStopsEveryCamera ==
  [][ /\ evt'.type = "stop_all"
           => \A id \in streamingCameras : StopRequests(net', id) = StopRequests(net, id) + 1
      /\ (page = "configuration" /\ page' # page)
           => \A id \in streamingCameras : StopRequests(net', id) > StopRequests(net, id)
      /\ (evt'.type = "stop_all_answered" /\ MountedStopAll(net) # {}
            /\ MountedStopAll(net') = {})
           => streamingCameras' = {}
    ]_vars

\* both cameras were streaming, the last request of a stopAllCameraStreams
\* call failed, and the set is empty
C11_Witness ==
  /\ page = "configuration"
  /\ evt.type = "stop_all_answered"
  /\ evt.status = "rejected"
  /\ activeStreams = CameraIds
  /\ streamingCameras = {}
  /\ BagCardinality(net) = 0

\* the cameras the mounted component has asked the backend to start and has
\* not taken out of its set since
StartedCameras ==
  streamingCameras \cup
    {r.sid : r \in {q \in BagToSet(net) : q.kind \in {"camera_start", "camera_delay"}
                                           /\ q.cap = "mounted"}}

\* C12: when the configuration page is left, a stop request is sent for every
\* camera the page has started, those whose start is still in progress
\* included.
C12_LeavingStopsEveryStream ==
  [][ (page = "configuration" /\ page' # page)
        => \A id \in StartedCameras : StopRequests(net', id) > StopRequests(net, id) ]_vars

(***************************************************************************)
(* The credentials of the store, fetched by the configuration page and     *)
(* edited on it and on the recording and replay pages.                     *)
(***************************************************************************)
HfNext ==
  \/ fetchHfEnv \/ fetchHfEnvAnswered \/ HfEdit
  \/ Cardinality(hfFetches) < MaxInFlight /\ Unmount

SpecHf == Init /\ [][HfNext]_vars

\* C14: a response of the environment request leaves a username and a token
\* that are set in the store when it is applied as they are.
C14_EnvNeverReplacesCredentials ==
  [][ evt'.type = "hf_env"
        => /\ store.hfUser # "" => store'.hfUser = store.hfUser
           /\ store.hfToken # "" => store'.hfToken = store.hfToken ]_vars

(***************************************************************************)
(* The robot-ID inputs, with pages left and entered again.                 *)
(***************************************************************************)
RobotIdNext == handleRobotIdChange \/ RobotIdTimeout \/ Unmount

SpecRobotId == Init /\ [][RobotIdNext]_vars

\* C15: an edit of a robot-ID field is followed by one call of setArmConfig
\* for that field with the last value entered: as long as the field has an
\* edit that has not been saved, its save is pending.
C15_EveryEditIsSaved ==
  \A f \in RobotIdFields : unsavedRobotId[f] => robotIdTimeout[f]

(***************************************************************************)
(* Input requests, websocket references and status polling of the session  *)
(* pages.                                                                   *)
(***************************************************************************)
\* C21: for each calibration or motor-setup session at most one submit_input
\* request is in flight, and while one is in flight the sending flag that
\* disables Continue is set, so that no second request is sent.
C21_OneInputRequestInFlight ==
  /\ \A s \in Sessions :
       LET inputs == {r \in InFlight("input") : r.sid = s}
       IN /\ Cardinality(inputs) <= 1
          /\ \A r \in inputs : CopiesIn(r, net) = 1
  /\ InFlight("input") # {} => sending

\* an input request is in flight while the prompt is still shown and another
\* request could be sent: only the sending flag keeps Continue from sending
C21_Witness ==
  /\ page \in {"calibration", "configuration"}
  /\ InFlight("input") # {}
  /\ awaiting /\ sessionId # 0 /\ CanSend

\* C22: while the websocket of the page's session is open, the page's
\* websocket reference designates that connection.
C22_ReferenceDesignatesOpenSocket ==
  (page \in LogPages /\ sessionId # 0 /\ conn[sessionId] = "open")
    => websocket = sessionId

\* C23: isSendingMotorInput is true only while the input request of a
\* motor-setup Continue is in flight; it is false again once the request has
\* ended, however it ended.
C23_SendingOnlyWhileRequestInFlight ==
  (page = "configuration" /\ sending) => InFlight("input") # {}

\* C24: a status request of a polling loop is sent only while the calibration
\* it was started for is running; once the page has seen the session end, no
\* loop polls any more.
C24_PollsOnlyWhileCalibrating ==
  [][evt'.type = "poll" => running]_vars

\* C26: the steps of a calibration advance in order: a step is in-progress or
\* completed only if every earlier step is completed, and at most one step is
\* in-progress, also after the session has finished.
C26_StepsAdvanceInOrder ==
  \A c \in Sessions :
    LET steps == calibrationSteps[c]
    IN /\ \A i \in DOMAIN steps :
            steps[i] \in {"in-progress", "completed"}
              => \A j \in 1..(i - 1) : steps[j] = "completed"
       /\ Cardinality({i \in DOMAIN steps : steps[i] = "in-progress"}) <= 1

(***************************************************************************)
(* The training page (ModelTraining, src/unnamed/part_003).  Of             *)
(* trainingStatus the flags isRunning and isCompleted and the error are     *)
(* kept; error is "null" or tells which code set it: "start" (the start     *)
(* request failed), "status" (data.error of a status response) or          *)
(* "timeout" (the 30 minute timer).  output and wandbLink are displayed     *)
(* only.  Requests are in net with the number of the run that sent them.   *)
(* The page is taken to have a user name and a dataset list, without which *)
(* Start Training cannot be clicked.                                        *)
(***************************************************************************)
\* Start Training clicks of one page instance
MaxRuns == 2

\* what the training page leaves alone
otherPagesVars ==
  <<page, backendConnected, running, isRunning, sessionId, websocket, output, awaiting,
    sending, motorConfigOutput, jointPositions, lastUpdateTime, updateFrequency, polls,
    nSessions, conn, rcvd, stopped, prevJointPositions, store, configurationVars,
    calibrationSteps, simulationVars, replayVars>>

TrainingInit ==
  /\ Mounted("training")
  /\ evt = Event("mount", "", <<>>)
  /\ store = InitialStore("me", "")
  /\ activeStreams = {}
  /\ hfFetches = {}
  /\ unsavedRobotId = [f \in RobotIdFields |-> FALSE]

\* startTraining up to the await of fetch; the button is disabled while isRunning
startTraining ==
  /\ page = "training"
  /\ ~trainingStatus.isRunning
  /\ trainingRun < MaxRuns
  /\ CanSend
  /\ trainingStatus' = [isRunning |-> TRUE, isCompleted |-> FALSE, error |-> "null"]
  /\ trainingRun' = trainingRun + 1
  /\ net' = Sent(Req("train_start", trainingRun + 1, 0, FALSE))
  /\ evt' = Event("train_start", "", <<>>)
  /\ UNCHANGED <<otherPagesVars, trainingTimers>>

\* the start request has ended: response.ok calls pollTrainingOutput, which sets
\* the interval and the 30 minute timeout; anything else sets the error
startTrainingAnswered ==
  /\ page = "training"
  /\ \E r \in InFlight("train_start"), ok \in BOOLEAN :
       /\ net' = Answered(r)
       /\ IF ok
            THEN /\ trainingTimers' = trainingTimers \cup
                      {[run |-> r.sid, timer |-> "interval"],
                       [run |-> r.sid, timer |-> "timeout"]}
                 /\ UNCHANGED trainingStatus
            ELSE /\ trainingStatus' =
                      [trainingStatus EXCEPT !.isRunning = FALSE, !.error = "start"]
                 /\ UNCHANGED trainingTimers
       /\ evt' = Event("train_start_done", IF ok THEN "ok" ELSE "failed", <<>>)
  /\ UNCHANGED <<otherPagesVars, trainingRun>>

\* a tick of the interval, up to the await of fetch
pollTrainingOutput ==
  /\ page = "training"
  /\ CanSend
  /\ \E t \in trainingTimers :
       /\ t.timer = "interval"
       /\ net' = Sent(Req("train_status", t.run, 0, FALSE))
  /\ evt' = Event("train_poll", "", <<>>)
  /\ UNCHANGED <<otherPagesVars, trainingVars>>

\* what a status response can say, and "rejected" for a failed fetch
TrainingAnswers == {"completed", "error", "running", "rejected"}

\* the rest of the tick, once the status request has ended
pollTrainingOutputAnswered ==
  /\ page = "training"
  /\ \E r \in InFlight("train_status"), data \in TrainingAnswers :
       /\ net' = Answered(r)
       /\ trainingStatus' =
            CASE data = "completed" ->
                   [trainingStatus EXCEPT !.isRunning = FALSE, !.isCompleted = TRUE]
              [] data = "error" ->
                   [trainingStatus EXCEPT !.isRunning = FALSE, !.error = "status"]
              [] OTHER -> trainingStatus
       /\ trainingTimers' =
            IF data \in {"completed", "error"}
              THEN trainingTimers \ {[run |-> r.sid, timer |-> "interval"]}
              ELSE trainingTimers
       /\ evt' = Event("train_status", data, <<>>)
  /\ UNCHANGED <<otherPagesVars, trainingRun>>

\* the 30 minute timeout of a pollTrainingOutput: nothing ever clears it
pollTrainingTimeout ==
  /\ page = "training"
  /\ \E t \in trainingTimers :
       /\ t.timer = "timeout"
       /\ trainingTimers' = trainingTimers \ {t, [run |-> t.run, timer |-> "interval"]}
  /\ trainingStatus' = [trainingStatus EXCEPT !.isRunning = FALSE, !.error = "timeout"]
  /\ evt' = Event("train_timeout", "", <<>>)
  /\ UNCHANGED <<otherPagesVars, net, trainingRun>>

\* stopTraining up to the await of fetch; the button is rendered while isRunning
stopTraining ==
  /\ page = "training"
  /\ trainingStatus.isRunning
  /\ CanSend
  /\ net' = Sent(Req("train_stop", trainingRun, 0, FALSE))
  /\ evt' = Event("train_stop", "", <<>>)
  /\ UNCHANGED <<otherPagesVars, trainingVars>>

\* the stop request has ended: resolved (any HTTP status) or rejected
stopTrainingAnswered ==
  /\ page = "training"
  /\ \E r \in InFlight("train_stop"), resolved \in BOOLEAN :
       /\ net' = Answered(r)
       /\ trainingStatus' =
            IF resolved THEN [trainingStatus EXCEPT !.isRunning = FALSE]
            ELSE trainingStatus
       /\ evt' = Event("train_stop_done", IF resolved THEN "ok" ELSE "rejected", <<>>)
  /\ UNCHANGED <<otherPagesVars, trainingTimers, trainingRun>>

TrainingNext ==
  \/ startTraining \/ startTrainingAnswered
  \/ pollTrainingOutput \/ pollTrainingOutputAnswered \/ pollTrainingTimeout
  \/ stopTraining \/ stopTrainingAnswered

SpecTraining == TrainingInit /\ [][TrainingNext]_vars

\* C25: once the training page shows a run as completed (isCompleted true,
\* error null), every step keeps it so, except the next Start Training.
C25_CompletedStaysCompleted ==
  [][(trainingStatus.isCompleted /\ trainingStatus.error = "null")
       => \/ trainingStatus'.isCompleted /\ trainingStatus'.error = "null"
          \/ evt'.type = "train_start"]_vars

(***************************************************************************)
(* The simulated training of the openbot dashboard's training page         *)
(* (openbot/dashboard/src/pages/ModelTraining.tsx).  isTraining and the    *)
(* configured epochs are in the store.  The page is taken to have a        *)
(* selected dataset, without which Start cannot be clicked.  Loss,         *)
(* accuracy, eta and the metrics list are displayed only.  The effect sets *)
(* a 100 ms interval whenever isTraining, isPaused or trainingProgress     *)
(* changes, so a tick is due exactly while its condition holds.            *)
(***************************************************************************)
\* the epoch counts a run is configured with: 1..MaxEpochs
MaxEpochs == 2
\* totalSteps as startTraining sets it
TotalSteps == 100
\* ticks of one run that are followed
MaxTicks == (MaxEpochs + 1) * TotalSteps

\* what the simulated training leaves alone
notSimulationVars ==
  <<page, backendConnected, running, isRunning, sessionId, websocket, output, awaiting,
    sending, motorConfigOutput, jointPositions, lastUpdateTime, updateFrequency, polls,
    nSessions, conn, net, rcvd, stopped, prevJointPositions, configurationVars,
    calibrationSteps, trainingVars, replayVars>>

SimulationInit ==
  /\ Mounted("openbot-training")
  /\ evt = Event("mount", "", <<>>)
  /\ \E epochs \in 1..MaxEpochs :
       store = [InitialStore("", "") EXCEPT !.trainingConfig.epochs = epochs,
                                            !.trainingConfig.datasetPath = "./data"]
  /\ activeStreams = {}
  /\ hfFetches = {}
  /\ unsavedRobotId = [f \in RobotIdFields |-> FALSE]

\* startTraining of the openbot page; the button is rendered while !isTraining
startSimulatedTraining ==
  /\ page = "openbot-training"
  /\ ~store.isTraining
  /\ store.trainingConfig.datasetPath # ""
  /\ store' = [store EXCEPT !.isTraining = TRUE]
  /\ isPaused' = FALSE
  /\ trainingProgress' = <<[currentEpoch |-> 0,
                            totalEpochs |-> store.trainingConfig.epochs,
                            currentStep |-> 0,
                            totalSteps |-> TotalSteps]>>
  /\ ticks' = 0 /\ uninterrupted' = TRUE
  /\ evt' = Event("sim_start", "", <<>>)
  /\ UNCHANGED notSimulationVars

\* Pause is rendered while isTraining and !isPaused
pauseTraining ==
  /\ page = "openbot-training"
  /\ store.isTraining /\ ~isPaused
  /\ isPaused' = TRUE
  /\ uninterrupted' = FALSE
  /\ evt' = Event("sim_pause", "", <<>>)
  /\ UNCHANGED <<notSimulationVars, store, trainingProgress, ticks>>

\* Resume is rendered while isTraining and isPaused
resumeTraining ==
  /\ page = "openbot-training"
  /\ store.isTraining /\ isPaused
  /\ isPaused' = FALSE
  /\ evt' = Event("sim_resume", "", <<>>)
  /\ UNCHANGED <<notSimulationVars, store, trainingProgress, ticks, uninterrupted>>

\* stopTraining of the openbot page; Stop is rendered while isTraining
stopSimulatedTraining ==
  /\ page = "openbot-training"
  /\ store.isTraining
  /\ store' = [store EXCEPT !.isTraining = FALSE]
  /\ isPaused' = FALSE
  /\ trainingProgress' = <<>>
  /\ uninterrupted' = FALSE
  /\ evt' = Event("sim_stop", "", <<>>)
  /\ UNCHANGED <<notSimulationVars, ticks>>

\* the updater of a tick: null when the run is over, else the new progress
ProgressAfterTick(prev) ==
  LET newStep == prev.currentStep + 1
      newEpoch == newStep \div prev.totalSteps
  IN IF newEpoch >= prev.totalEpochs THEN <<>>
     ELSE <<[prev EXCEPT !.currentEpoch = newEpoch,
                         !.currentStep = newStep % prev.totalSteps]>>

\* a tick of the interval: setTrainingProgress with the updater, which calls
\* setTraining(false) and setIsPaused(false) when the run is over
simulateTrainingProgress ==
  /\ page = "openbot-training"
  /\ store.isTraining /\ ~isPaused /\ trainingProgress # <<>>
  /\ ticks < MaxTicks
  /\ trainingProgress' = ProgressAfterTick(trainingProgress[1])
  /\ store' = [store EXCEPT !.isTraining = (trainingProgress' # <<>>)]
  /\ isPaused' = FALSE
  /\ ticks' = ticks + 1
  /\ evt' = Event("sim_tick", "", <<>>)
  /\ UNCHANGED <<notSimulationVars, uninterrupted>>

SimulationNext ==
  \/ startSimulatedTraining \/ pauseTraining \/ resumeTraining \/ stopSimulatedTraining
  \/ simulateTrainingProgress

SpecSimulation == SimulationInit /\ [][SimulationNext]_vars

\* C27: a simulated run that was neither paused nor stopped is over after
\* totalEpochs x totalSteps ticks, and until then currentEpoch is the number of
\* whole passes of totalSteps ticks made so far (it rises by one every
\* totalSteps ticks and never falls).
C27_RunCompletesEpochByEpoch ==
  (uninterrupted /\ trainingProgress # <<>>)
    => /\ ticks < trainingProgress[1].totalEpochs * trainingProgress[1].totalSteps
       /\ trainingProgress[1].currentEpoch = ticks \div trainingProgress[1].totalSteps

(***************************************************************************)
(* The dataset player (DatasetReplay of src/unnamed/part_008).  Its        *)
(* datasets, armConfig.followerConnected and currentSession.isReplaying    *)
(* are in the store.  playbackSpeed only sets the period of the interval.  *)
(* The effect sets the interval while isPlaying and not isPaused, so a     *)
(* playback tick is due exactly then.                                       *)
(***************************************************************************)
\* the frameCount of the datasets of the store: none, one, and enough frames
\* for a skip (a tenth of them, rounded down) to move
FrameCounts == {0, 1, 10}
\* the frames a seek may ask for: the slider's values and some beyond them
SeekFrames == {-1, 0, 5, 9, 10}

Min(a, b) == IF a < b THEN a ELSE b
Max(a, b) == IF a > b THEN a ELSE b

\* what the dataset player leaves alone
notReplayVars ==
  <<page, backendConnected, running, isRunning, sessionId, websocket, output, awaiting,
    sending, motorConfigOutput, jointPositions, lastUpdateTime, updateFrequency, polls,
    nSessions, conn, net, rcvd, stopped, prevJointPositions, configurationVars,
    calibrationSteps, trainingVars, simulationVars>>

PlayerInit ==
  /\ Mounted("player")
  /\ evt = Event("mount", "", <<>>)
  /\ \E n1 \in FrameCounts, n2 \in FrameCounts :
       store = [InitialStore("", "") EXCEPT
                  !.armConfig.followerConnected = TRUE,
                  !.datasets = <<[id |-> "d1", name |-> "first", frameCount |-> n1],
                                 [id |-> "d2", name |-> "second", frameCount |-> n2]>>]
  /\ activeStreams = {}
  /\ hfFetches = {}
  /\ unsavedRobotId = [f \in RobotIdFields |-> FALSE]

\* a click on a dataset of the list; the effect on selectedDataset then takes
\* totalFrames from datasets.find(d => d.id === selectedDataset) and rewinds
selectDataset ==
  /\ page = "player"
  /\ \E i \in DOMAIN store.datasets :
       /\ store.datasets[i].id # selectedDataset
       /\ selectedDataset' = store.datasets[i].id
       /\ LET first == CHOOSE j \in DOMAIN store.datasets :
                          /\ store.datasets[j].id = store.datasets[i].id
                          /\ \A k \in 1..(j - 1) : store.datasets[k].id # store.datasets[i].id
          IN replayState' = [replayState EXCEPT
                               !.totalFrames = store.datasets[first].frameCount,
                               !.currentFrame = 0]
  /\ evt' = Event("select", "", <<>>)
  /\ UNCHANGED <<notReplayVars, store>>

\* Start is rendered while !isPlaying and is disabled without a dataset or
\* without a connected follower
startReplay ==
  /\ page = "player"
  /\ ~replayState.isPlaying
  /\ selectedDataset # "" /\ store.armConfig.followerConnected
  /\ replayState' = [replayState EXCEPT !.isPlaying = TRUE, !.isPaused = FALSE]
  /\ store' = setSessionState(store, [isReplaying |-> TRUE])
  /\ evt' = Event("replay_start", "", <<>>)
  /\ UNCHANGED <<notReplayVars, selectedDataset>>

\* Pause is rendered while isPlaying and !isPaused
pauseReplay ==
  /\ page = "player"
  /\ replayState.isPlaying /\ ~replayState.isPaused
  /\ replayState' = [replayState EXCEPT !.isPaused = TRUE]
  /\ evt' = Event("replay_pause", "", <<>>)
  /\ UNCHANGED <<notReplayVars, store, selectedDataset>>

\* Resume is rendered while isPlaying and isPaused
resumeReplay ==
  /\ page = "player"
  /\ replayState.isPlaying /\ replayState.isPaused
  /\ replayState' = [replayState EXCEPT !.isPaused = FALSE]
  /\ evt' = Event("replay_resume", "", <<>>)
  /\ UNCHANGED <<notReplayVars, store, selectedDataset>>

\* Stop is rendered while isPlaying
stopReplay ==
  /\ page = "player"
  /\ replayState.isPlaying
  /\ replayState' = [replayState EXCEPT !.isPlaying = FALSE, !.isPaused = FALSE,
                                        !.currentFrame = 0]
  /\ store' = setSessionState(store, [isReplaying |-> FALSE])
  /\ evt' = Event("replay_stop", "", <<>>)
  /\ UNCHANGED <<notReplayVars, selectedDataset>>

\* the slider, rendered while a dataset is selected
seekToFrame ==
  /\ page = "player"
  /\ selectedDataset # ""
  /\ \E frame \in SeekFrames :
       replayState' = [replayState EXCEPT
                         !.currentFrame = Max(0, Min(frame, replayState.totalFrames - 1))]
  /\ evt' = Event("seek", "", <<>>)
  /\ UNCHANGED <<notReplayVars, store, selectedDataset>>

\* the skip buttons are disabled only while no dataset is selected
skipBackward ==
  /\ page = "player"
  /\ selectedDataset # ""
  /\ replayState' = [replayState EXCEPT
                       !.currentFrame = Max(0, replayState.currentFrame
                                                 - (replayState.totalFrames \div 10))]
  /\ evt' = Event("skip_backward", "", <<>>)
  /\ UNCHANGED <<notReplayVars, store, selectedDataset>>

skipForward ==
  /\ page = "player"
  /\ selectedDataset # ""
  /\ replayState' = [replayState EXCEPT
                       !.currentFrame = Min(replayState.totalFrames - 1,
                                            replayState.currentFrame
                                              + (replayState.totalFrames \div 10))]
  /\ evt' = Event("skip_forward", "", <<>>)
  /\ UNCHANGED <<notReplayVars, store, selectedDataset>>

\* the Loop playback checkbox
toggleLoop ==
  /\ page = "player"
  /\ replayState' = [replayState EXCEPT !.loop = ~replayState.loop]
  /\ evt' = Event("loop", "", <<>>)
  /\ UNCHANGED <<notReplayVars, store, selectedDataset>>

\* a tick of the playback interval
playbackTick ==
  /\ page = "player"
  /\ replayState.isPlaying /\ ~replayState.isPaused
  /\ LET nextFrame == replayState.currentFrame + 1
     IN replayState' =
          IF nextFrame >= replayState.totalFrames
            THEN IF replayState.loop
                   THEN [replayState EXCEPT !.currentFrame = 0]
                   ELSE [replayState EXCEPT !.isPlaying = FALSE, !.currentFrame = 0]
            ELSE [replayState EXCEPT !.currentFrame = nextFrame]
  /\ evt' = Event("replay_tick", "", <<>>)
  /\ UNCHANGED <<notReplayVars, store, selectedDataset>>

PlayerNext ==
  \/ selectDataset \/ startReplay \/ pauseReplay \/ resumeReplay \/ stopReplay
  \/ seekToFrame \/ skipBackward \/ skipForward \/ toggleLoop \/ playbackTick

SpecPlayer == PlayerInit /\ [][PlayerNext]_vars

\* C28: the frame of the dataset player is never negative and never beyond the
\* last frame: 0 <= currentFrame <= max(totalFrames - 1, 0).
C28_FrameInRange ==
  /\ 0 <= replayState.currentFrame
  /\ replayState.currentFrame <= Max(replayState.totalFrames - 1, 0)

\* C29: currentSession.isReplaying of the store is true exactly while the
\* player is playing (isPlaying, paused or not).
C29_ReplayingFlagFollowsPlayback ==
  page = "player" => (store.currentSession.isReplaying <=> replayState.isPlaying)

(***************************************************************************)
(* The camera list of the configuration page (Configuration component,     *)
(* DatasetReplay.tsx).  cameraList is set from the store's cameras after    *)
(* every render in which they changed, so it is store.cameras here.  Of a  *)
(* camera its id and its enabled flag are kept; a rescan takes the other   *)
(* properties from the scan.  handleScanCameras reads cameraList and       *)
(* streamingCameras of the render in which Scan was clicked: the request   *)
(* carries them.                                                            *)
(***************************************************************************)
setCameras(state, cameras) == Merge(state, [cameras |-> cameras])

\* data.cameras of a scan response: the ids found, in the order reported
ScannedCameras == {<<>>, <<"0">>, <<"1">>, <<"0", "1">>, <<"1", "0">>}

\* finalCameras of handleScanCameras
finalCameras(cameraList, streaming, scanned) ==
  LET scannedCameras == [i \in DOMAIN scanned |-> [id |-> scanned[i], enabled |-> TRUE]]
      IsStreaming(cam) == cam.id \in streaming
      NotScanned(cam) == \A i \in DOMAIN scanned : scanned[i] # cam.id
      existingCameras == SelectSeq(cameraList, IsStreaming)
      mergedCameras == scannedCameras \o SelectSeq(existingCameras, NotScanned)
      Listed(id) == {i \in DOMAIN cameraList : cameraList[i].id = id}
      \* new Map(cameraList.map(cam => [cam.id, cam])): the last entry of an id
      existing(id) == cameraList[CHOOSE i \in Listed(id) : \A j \in Listed(id) : j <= i]
  IN [i \in DOMAIN mergedCameras |->
        IF Listed(mergedCameras[i].id) # {}
          THEN [mergedCameras[i] EXCEPT !.enabled = existing(mergedCameras[i].id).enabled]
          ELSE mergedCameras[i]]

\* the Enabled switch of a listed camera
handleToggleCamera ==
  /\ page = "configuration"
  /\ \E i \in DOMAIN store.cameras :
       /\ store' = toggleCamera(store, store.cameras[i].id)
       /\ evt' = Event("camera_toggle", "", store.cameras[i].id)
  /\ UNCHANGED <<pageVars, configurationVars>>

\* handleScanCameras up to the await of fetch; the button is disabled while
\* isScanningCameras, which is true from here until the finally block
handleScanCameras ==
  /\ page = "configuration"
  /\ \A r \in BagToSet(net) : r.kind # "camera_scan"
  /\ CanSend
  /\ net' = Sent([kind |-> "camera_scan", cameraList |-> store.cameras,
                  streamingCameras |-> streamingCameras])
  /\ evt' = Event("scan", "", <<>>)
  /\ UNCHANGED <<page, backendConnected, running, isRunning, sessionId, websocket, output,
                 awaiting, sending, motorConfigOutput, jointPositions, lastUpdateTime,
                 updateFrequency, polls, nSessions, conn, rcvd,
                 stopped, prevJointPositions, store, configurationVars, calibrationSteps,
                 trainingVars, simulationVars, replayVars>>

\* the scan request has ended: a response that is ok sets the store's cameras,
\* anything else only shows a toast
handleScanCamerasAnswered ==
  /\ page = "configuration"
  /\ \E r \in InFlight("camera_scan") :
       /\ net' = Answered(r)
       /\ \/ \E scanned \in ScannedCameras :
               /\ store' = setCameras(store, finalCameras(r.cameraList, r.streamingCameras,
                                                          scanned))
               /\ evt' = Event("scan_answered", "ok", scanned)
          \/ /\ UNCHANGED store
             /\ evt' = Event("scan_answered", "failed", <<>>)
  /\ UNCHANGED <<page, backendConnected, running, isRunning, sessionId, websocket, output,
                 awaiting, sending, motorConfigOutput, jointPositions, lastUpdateTime,
                 updateFrequency, polls, nSessions, conn, rcvd,
                 stopped, prevJointPositions, configurationVars, calibrationSteps,
                 trainingVars, simulationVars, replayVars>>

ScanNext ==
  \/ handleScanCameras \/ handleScanCamerasAnswered \/ handleToggleCamera
  \/ handleToggleStreaming \/ CameraStartAnswered \/ CameraStartDelayed
  \/ CameraStopAnswered

SpecScan == StoreInit /\ [][ScanNext]_vars

\* C30: a rescan keeps every listed camera that is streaming in the list,
\* keeps the enabled flag of every listed camera that stays in the list, and
\* lists every camera it adds as enabled.
C30_RescanKeepsStreamingAndEnabled ==
  [][evt'.type = "scan_answered"
       => /\ \A i \in DOMAIN store.cameras :
               /\ store.cameras[i].id \in streamingCameras
                    => \E j \in DOMAIN store'.cameras :
                         store'.cameras[j].id = store.cameras[i].id
               /\ \A j \in DOMAIN store'.cameras :
                    store'.cameras[j].id = store.cameras[i].id
                      => store'.cameras[j].enabled = store.cameras[i].enabled
          /\ \A j \in DOMAIN store'.cameras :
               (\A i \in DOMAIN store.cameras : store.cameras[i].id # store'.cameras[j].id)
                 => store'.cameras[j].enabled]_vars

====
